---- MODULE Spec2Model ----
(***************************************************************************)
(* A model of xbmc/pvr/filesystem/PVRGUIDirectory.cpp: the pvr:// virtual  *)
(* directory router, the recordings directory builder with its synthetic   *)
(* folders, and the asynchronous in-progress-episodes refresh job.         *)
(*                                                                         *)
(* Strings whose characters matter (file names, recording directories) are *)
(* sequences of one-character strings.                                     *)
(***************************************************************************)
EXTENDS Integers, Sequences, FiniteSets, TLC

(***************************************************************************)
(* Bounds of the model.                                                    *)
(***************************************************************************)
\* longest exhaustively enumerated directory string of the membership probe
MaxLen == 3
\* most recordings in the backend's recordings collection
MaxRecs == 2

(***************************************************************************)
(* Strings.                                                                *)
(***************************************************************************)
SLASH == "/"

\* ::tolower on the characters the model uses
ToLowerChar(c) ==
  CASE c = "A" -> "a"
    [] c = "B" -> "b"
    [] c = "C" -> "c"
    [] OTHER -> c

ToLower(s) == [i \in 1..Len(s) |-> ToLowerChar(s[i])]

\* StringUtils::StartsWith(str1, str2): str1 begins with str2, case-sensitive
StartsWith(str1, str2) ==
  /\ Len(str2) <= Len(str1)
  /\ SubSeq(str1, 1, Len(str2)) = str2

\* StringUtils::EqualsNoCase
EqualsNoCase(str1, str2) == ToLower(str1) = ToLower(str2)

\* StringUtils::StartsWithNoCase(str1, str2): str1 begins with str2
StartsWithNoCase(str1, str2) == StartsWith(ToLower(str1), ToLower(str2))

\* URIUtils::RemoveSlashAtEnd on a plain (non-URL) string: drops every
\* trailing slash
RECURSIVE RemoveSlashAtEnd(_)
RemoveSlashAtEnd(s) ==
  IF Len(s) > 0 /\ s[Len(s)] = SLASH
    THEN RemoveSlashAtEnd(SubSeq(s, 1, Len(s) - 1))
    ELSE s

\* the leading-slash loop of TrimSlashes: while (strReturn[0] == '/') erase
RECURSIVE EraseLeadingSlashes(_)
EraseLeadingSlashes(s) ==
  IF Len(s) > 0 /\ s[1] = SLASH
    THEN EraseLeadingSlashes(Tail(s))
    ELSE s

TrimSlashes(strOrig) == RemoveSlashAtEnd(EraseLeadingSlashes(strOrig))

\* a plausible slip: the two comparison modes swapped
IsDirectoryMemberSwapped(strDirectory, strEntryDirectory, bGrouped) ==
  LET strUseDirectory == TrimSlashes(strDirectory)
      strUseEntryDirectory == TrimSlashes(strEntryDirectory)
  IN IF bGrouped
       THEN StartsWithNoCase(strUseEntryDirectory, strUseDirectory)
       ELSE EqualsNoCase(strUseDirectory, strUseEntryDirectory)

IsDirectoryMember(strDirectory, strEntryDirectory, bGrouped) ==
  LET strUseDirectory == TrimSlashes(strDirectory)
      strUseEntryDirectory == TrimSlashes(strEntryDirectory)
  IN IF bGrouped
       THEN EqualsNoCase(strUseDirectory, strUseEntryDirectory)
       ELSE StartsWithNoCase(strUseEntryDirectory, strUseDirectory)

(***************************************************************************)
(* Program constants.                                                      *)
(***************************************************************************)
PVR_CLIENT_INVALID_UID == -1
PVR_PROVIDER_INVALID_UID == -1

\* an absent url option (CURL::HasOption is false)
NoOption == "<none>"

(***************************************************************************)
(* State.                                                                  *)
(***************************************************************************)
VARIABLES
  started,     \* CPVRManager::IsStarted()
  settings,    \* the two settings the builders read
  caps,        \* what the clients support (EPG, recordings)
  recordings,  \* CPVRRecordings::GetAll(): the backend's recordings
  timers,      \* CPVRTimers::GetAll()
  channels,    \* the channels, by storage id
  groups,      \* the channel groups of both kinds, by group id
  clients,     \* per client id: the time its first channels were added
  providers,   \* CPVRProviders::GetProviders()
  searches,    \* the saved EPG searches
  items,       \* the CFileItem objects alive, by identity
  results,     \* the caller's CFileItemList: identities of its entries
  call,        \* the last GetDirectory call: its url and return value
  job,         \* the queued CPVRRecordingFoldersInProgressEpisodesCountJob
  sent,        \* GUI_MSG_UPDATE_ITEM messages sent, by item identity
  probe        \* arguments and result of a helper applied on its own

backend == <<settings, caps, recordings, timers, channels, groups, clients,
             providers, searches>>

vars == <<started, backend, items, results, call, job, sent, probe>>

(***************************************************************************)
(* Paths and urls.  A url is its file name's first segment (characters),   *)
(* the segments after it, the recordings directory part, and its options.  *)
(***************************************************************************)
NoPath ==
  [ns |-> "", valid |-> FALSE, radio |-> FALSE, flag |-> FALSE, dir |-> <<>>,
   group |-> "", id1 |-> PVR_CLIENT_INVALID_UID, id2 |-> PVR_PROVIDER_INVALID_UID,
   leaf |-> ""]

\* a numeric path segment; its value is the url's n1 (first) or n2 (second)
NUM == "#"

MkUrl(seg1, segs, dir, n1, n2, view, clientId, providerId) ==
  [seg1 |-> seg1, segs |-> segs, dir |-> dir, n1 |-> n1, n2 |-> n2,
   view |-> view, clientId |-> clientId, providerId |-> providerId]

HasOption(url) == url.view # NoOption

\* CURL::GetFileName() after URIUtils::RemoveSlashAtEnd is empty
FileNameEmpty(url) == url.seg1 = <<>> /\ url.segs = <<>>

W_tv == <<"t", "v">>
W_radio == <<"r", "a", "d", "i", "o">>
W_recordings == <<"r", "e", "c", "o", "r", "d", "i", "n", "g", "s">>
W_channels == <<"c", "h", "a", "n", "n", "e", "l", "s">>
W_providers == <<"p", "r", "o", "v", "i", "d", "e", "r", "s">>
W_timers == <<"t", "i", "m", "e", "r", "s">>
W_search == <<"s", "e", "a", "r", "c", "h">>

KindSegs == {"tv", "radio"}

\* CPVRRecordingsPath(url without options):
\* recordings/(tv|radio)/(active|deleted)/<directory>
CPVRRecordingsPath(url) ==
  IF /\ url.seg1 = W_recordings
     /\ Len(url.segs) = 2
     /\ url.segs[1] \in KindSegs
     /\ url.segs[2] \in {"active", "deleted"}
    THEN [NoPath EXCEPT !.ns = "recordings", !.valid = TRUE,
                        !.radio = (url.segs[1] = "radio"),
                        !.flag = (url.segs[2] = "deleted"),
                        !.dir = url.dir]
    ELSE NoPath

\* CPVRRecordingsPath::GetUnescapedDirectoryPath
GetUnescapedDirectoryPath(recPath) == recPath.dir

\* the part of s before its first slash
RECURSIVE FirstSegment(_)
FirstSegment(s) ==
  IF s = <<>> \/ s[1] = SLASH THEN <<>> ELSE <<s[1]>> \o FirstSegment(Tail(s))

\* CPVRRecordingsPath::GetUnescapedSubDirectoryPath: the immediate
\* sub-directory segment of strPath below the path's directory, empty when
\* strPath is not below it (segment matching is case-insensitive)
GetUnescapedSubDirectoryPath(recPath, strPath) ==
  LET strUsePath == TrimSlashes(strPath)
      base == TrimSlashes(GetUnescapedDirectoryPath(recPath))
  IN IF base = <<>>
       THEN FirstSegment(strUsePath)
       ELSE IF /\ Len(strUsePath) > Len(base)
               /\ StartsWithNoCase(strUsePath, base \o <<SLASH>>)
              THEN FirstSegment(
                     TrimSlashes(SubSeq(strUsePath, Len(base) + 1, Len(strUsePath))))
              ELSE <<>>

\* CPVRRecordingsPath::AppendSegment
AppendSegment(recPath, strSegment) ==
  IF ~recPath.valid \/ strSegment = <<>> \/ strSegment = <<SLASH>>
    THEN recPath
    ELSE LET d == recPath.dir
             sep == IF d # <<>> /\ d[Len(d)] # SLASH THEN <<SLASH>> ELSE <<>>
         IN [recPath EXCEPT !.dir = d \o sep \o TrimSlashes(strSegment) \o <<SLASH>>]

(***************************************************************************)
(* File items.                                                             *)
(***************************************************************************)
NoProps == [k \in {} |-> 0]

NewItem(kind, path, bIsFolder) ==
  [kind |-> kind, path |-> path, folder |-> bIsFolder, label |-> "",
   ref |-> 0, dateTime |-> 0, size |-> 0, overlay |-> "none",
   props |-> NoProps]

SetProperty(item, key, value) ==
  [item EXCEPT !.props = (key :> value) @@ item.props]

GetProperty(item, key, default) ==
  IF key \in DOMAIN item.props THEN item.props[key] ELSE default

IncrementProperty(item, key, n) ==
  SetProperty(item, key, GetProperty(item, key, 0) + n)

ClearProperty(item, key) ==
  [item EXCEPT !.props = [k \in (DOMAIN item.props) \ {key} |-> item.props[k]]]

\* CFileItemList::Contains(path)
Contains(list, path) == \E i \in 1..Len(list) : list[i].path = path

\* CFileItemList::Get(path): the position of the entry with that path
Get(list, path) ==
  CHOOSE i \in 1..Len(list) :
    /\ list[i].path = path
    /\ \A j \in 1..(i - 1) : list[j].path # path

(***************************************************************************)
(* CByClientAndProviderFilter                                              *)
(***************************************************************************)
\* UTILS::GetClientAndProviderFromPath: the url selects a client
ApplyFilter(url) == url.clientId # PVR_CLIENT_INVALID_UID

\* the options of an item's own path: none
UrlOfPath(path) ==
  [seg1 |-> <<>>, segs |-> <<>>, dir |-> path.dir, n1 |-> path.id1,
   n2 |-> path.id2, view |-> NoOption,
   clientId |-> PVR_CLIENT_INVALID_UID, providerId |-> PVR_PROVIDER_INVALID_UID]

\* CByClientAndProviderFilter::Filter: TRUE when the item is filtered out
Filter(url, item) ==
  /\ ApplyFilter(url)
  /\ \/ item.clientId # url.clientId
     \/ /\ url.providerId # PVR_PROVIDER_INVALID_UID
        /\ item.providerUid # url.providerId

(***************************************************************************)
(* Recordings: the synthetic folders of a grouped listing.                 *)
(* A definition's value that is needed more than once is handed on as an   *)
(* operator argument.                                                      *)
(***************************************************************************)
\* the first-occurrence branch of the loop: a new folder entry
NewFolder(strCurrent, strFilePath, recording) ==
  [NewItem("folder", strFilePath, TRUE) EXCEPT
     !.label = strCurrent,
     !.dateTime = recording.time,
     !.overlay = "watched",
     !.props = [k \in {"totalepisodes", "watchedepisodes", "unwatchedepisodes",
                       "inprogressepisodes", "sizeinbytes"} |-> 0]]

\* the else branch: an existing folder keeps the latest recording time
ReuseFolder(item, recording) ==
  IF item.dateTime < recording.time
    THEN [item EXCEPT !.dateTime = recording.time]
    ELSE item

CountWatched(item, recording) ==
  IF recording.playCount = 0
    THEN IncrementProperty(item, "unwatchedepisodes", 1)
    ELSE IncrementProperty(item, "watchedepisodes", 1)

\* the locally cached resume point decides, not the backend's
CountInProgressCached(item, recording) ==
  IF recording.local
    THEN IncrementProperty(item, "inprogressepisodes", 1)
    ELSE item

\* the counters of one recording added to its folder entry
CountRecording(item, recording) ==
  IncrementProperty(
    CountInProgressCached(
      CountWatched(IncrementProperty(item, "totalepisodes", 1), recording),
      recording),
    "sizeinbytes", recording.size)

\* unwatchedFolders.insert(item) for an unwatched recording
MarkUnwatched(unwatched, recording, pos) ==
  IF recording.playCount = 0 THEN unwatched \cup {pos} ELSE unwatched

CreateAndCount(st, recording, strCurrent, strFilePath) ==
  [list |-> Append(st.list,
                   CountRecording(NewFolder(strCurrent, strFilePath, recording),
                                  recording)),
   unwatched |-> MarkUnwatched(st.unwatched, recording, Len(st.list) + 1)]

ReuseAndCount(st, recording, pos) ==
  [list |-> [st.list EXCEPT
               ![pos] = CountRecording(ReuseFolder(st.list[pos], recording),
                                       recording)],
   unwatched |-> MarkUnwatched(st.unwatched, recording, pos)]

\* a plausible slip: a folder is created for every recording, never reused
FolderOfRecordingNoReuse(st, recording, strCurrent, strFilePath) ==
  CreateAndCount(st, recording, strCurrent, strFilePath)

\* the folder of one recording: created when the results do not contain its
\* path, reused otherwise; st.list are the results, st.unwatched the
\* positions of the entries in unwatchedFolders
FolderOfRecording(st, recording, strCurrent, strFilePath) ==
  IF ~Contains(st.list, strFilePath)
    THEN CreateAndCount(st, recording, strCurrent, strFilePath)
    ELSE ReuseAndCount(st, recording, Get(st.list, strFilePath))

SubDirOfRecording(url, recParentPath, st, recording, strCurrent) ==
  IF \/ Filter(url, recording)
     \/ recording.deleted
     \/ recording.radio # recParentPath.radio
     \/ strCurrent = <<>>
    THEN st
    ELSE FolderOfRecording(st, recording, strCurrent,
                           AppendSegment(recParentPath, strCurrent))

\* one iteration of the loop over the recordings
SubDirStep(url, recParentPath, st, recording) ==
  SubDirOfRecording(url, recParentPath, st, recording,
                    GetUnescapedSubDirectoryPath(recParentPath, recording.dir))

RECURSIVE SubDirLoop(_, _, _, _, _)
SubDirLoop(url, recParentPath, recs, k, st) ==
  IF k > Len(recs)
    THEN st
    ELSE SubDirLoop(url, recParentPath, recs, k + 1,
                    SubDirStep(url, recParentPath, st, recs[k]))

\* the second loop: the accumulated size becomes the entry's size
ReplaceSize(item) ==
  IF GetProperty(item, "sizeinbytes", 0) > 0
    THEN SetProperty([ClearProperty(item, "sizeinbytes") EXCEPT
                        !.size = GetProperty(item, "sizeinbytes", 0)],
                     "recordingsize", GetProperty(item, "sizeinbytes", 0))
    ELSE [ClearProperty(item, "sizeinbytes") EXCEPT
            !.size = GetProperty(item, "sizeinbytes", 0)]

\* a plausible slip: a folder is unwatched only when nothing in it is watched
FolderOverlayAllUnwatched(st, i) ==
  IF i \in st.unwatched /\ GetProperty(st.list[i], "watchedepisodes", 0) = 0
    THEN "unwatched"
    ELSE st.list[i].overlay

\* the third loop: folders in unwatchedFolders get the unwatched overlay
FolderOverlay(st, i) ==
  IF i \in st.unwatched THEN "unwatched" ELSE st.list[i].overlay

\* the two loops after the recordings loop
FinishFolders(st) ==
  [i \in 1..Len(st.list) |->
     [ReplaceSize(st.list[i]) EXCEPT !.overlay = FolderOverlay(st, i)]]

GetGetRecordingsSubDirectories(url, recParentPath, recs, resultsIn) ==
  FinishFolders(SubDirLoop(url, recParentPath, recs, 1,
                           [list |-> resultsIn, unwatched |-> {}]))

(***************************************************************************)
(* GetRecordingsDirectory                                                  *)
(***************************************************************************)
BuilderResult(ok, list, nJob, builder) ==
  [ok |-> ok, list |-> list, nJob |-> nJob, builder |-> builder]

\* CFileItem(recording) with the overlay of the leaf loop
RecordingItem(recs, k) ==
  [NewItem("recording",
           [NoPath EXCEPT !.ns = "recording", !.valid = TRUE,
                          !.radio = recs[k].radio, !.flag = recs[k].deleted,
                          !.dir = recs[k].dir, !.id1 = k],
           FALSE)
     EXCEPT !.ref = k, !.dateTime = recs[k].time, !.size = recs[k].size,
            !.overlay = IF recs[k].playCount > 0 THEN "watched" ELSE "unwatched"]

\* the leaf loop's test: the recording belongs to the listed directory
IsLeaf(url, recPath, bGrouped, recording) ==
  /\ ~Filter(url, recording)
  /\ recording.deleted = recPath.flag
  /\ recording.radio = recPath.radio
  /\ IsDirectoryMember(GetUnescapedDirectoryPath(recPath), recording.dir, bGrouped)

\* the leaf loop: the recordings of the directory, appended to the results
RECURSIVE LeafLoop(_, _, _, _, _, _)
LeafLoop(url, recPath, bGrouped, recs, k, list) ==
  IF k > Len(recs)
    THEN list
    ELSE LeafLoop(url, recPath, bGrouped, recs, k + 1,
                  IF IsLeaf(url, recPath, bGrouped, recs[k])
                    THEN Append(list, RecordingItem(recs, k))
                    ELSE list)

\* a plausible slip: the job is queued after the leaf loop
JobEntriesAfterLeaves(folders, all) == Len(all)

\* the number of entries handed to the refresh job: the results at the time
\* AddJob is called, before the leaf loop; no job when they are empty
JobEntries(folders, all) == Len(folders)

RecordingsListed(folders, all) ==
  BuilderResult(TRUE, all, JobEntries(folders, all), "recordings")

RecordingsWithLeaves(url, recPath, bGrouped, recs, folders) ==
  RecordingsListed(folders, LeafLoop(url, recPath, bGrouped, recs, 1, folders))

RecordingsOfPath(url, recPath, bGrouped, recs, resultsIn) ==
  IF recPath.valid
    THEN RecordingsWithLeaves(url, recPath, bGrouped, recs,
           IF ~recPath.flag /\ bGrouped
             THEN GetGetRecordingsSubDirectories(url, recPath, recs, resultsIn)
             ELSE resultsIn)
    ELSE BuilderResult(FALSE, resultsIn, 0, "recordings")

GroupedView(view, groupSetting) ==
  IF view # NoOption THEN view = "grouped" ELSE groupSetting

\* a plausible slip: an unsupported view value falls back to the setting
RecordingsViewAnySupported(view) == TRUE

RecordingsViewSupported(view) == view = NoOption \/ view \in {"grouped", "flat"}

GetRecordingsDirectory(url, recs, groupSetting, resultsIn) ==
  IF ~RecordingsViewSupported(url.view)
    THEN BuilderResult(FALSE, resultsIn, 0, "recordings")
    ELSE RecordingsOfPath(url, CPVRRecordingsPath(url),
                          GroupedView(url.view, groupSetting), recs, resultsIn)

(***************************************************************************)
(* GetRootDirectory: the fixed menu of a kind                              *)
(***************************************************************************)
MenuItem(ns, bRadio, leaf) ==
  [NewItem("menu", [NoPath EXCEPT !.ns = ns, !.valid = TRUE, !.radio = bRadio,
                                  !.leaf = leaf], TRUE)
     EXCEPT !.label = leaf]

GetRootDirectory(bRadio, resultsIn) ==
  resultsIn
    \o (IF caps.epg THEN <<MenuItem("guide", bRadio, "Guide")>> ELSE <<>>)
    \o <<MenuItem("channels", bRadio, "Channels")>>
    \o (IF caps.rec THEN <<MenuItem("recordings", bRadio, "Recordings")>> ELSE <<>>)
    \o (IF Len(providers) > 1
          THEN <<MenuItem("providers", bRadio, "Providers")>> ELSE <<>>)
    \o <<MenuItem("timers", bRadio, "Timers")>>
    \o <<MenuItem("timers", bRadio, "Timer rules")>>
    \o (IF caps.epg THEN <<MenuItem("search", bRadio, "Search")>> ELSE <<>>)

\* the members of S, a set of positions, in ascending order
RECURSIVE Ascending(_)
Ascending(S) ==
  IF S = {} THEN <<>>
  ELSE <<CHOOSE x \in S : \A y \in S : x <= y>>
         \o Ascending(S \ {CHOOSE x \in S : \A y \in S : x <= y})

\* the least member of a non-empty set of positions, 0 for the empty set
First(S) == IF S = {} THEN 0 ELSE CHOOSE x \in S : \A y \in S : x <= y

(***************************************************************************)
(* Saved searches                                                          *)
(***************************************************************************)
\* CPVREpgSearchPath: search/(tv|radio)[/savedsearches[/<id>]]
CPVREpgSearchPath(url) ==
  IF /\ url.seg1 = W_search
     /\ Len(url.segs) \in 1..3
     /\ url.segs[1] \in KindSegs
     /\ Len(url.segs) >= 2 => url.segs[2] = "savedsearches"
     /\ Len(url.segs) = 3 => url.segs[3] = NUM
    THEN [NoPath EXCEPT !.ns = "search", !.valid = TRUE,
                        !.radio = (url.segs[1] = "radio"),
                        !.leaf = IF Len(url.segs) = 1 THEN "search"
                                 ELSE IF Len(url.segs) = 2 THEN "savedsearches"
                                 ELSE "savedsearch",
                        !.id1 = IF Len(url.segs) = 3 THEN url.n1
                                ELSE PVR_CLIENT_INVALID_UID]
    ELSE NoPath

IsSavedSearchesRoot(path) == path.leaf = "savedsearches"
IsSavedSearch(path) == path.leaf = "savedsearch"

SearchIndexes(bRadio) == {i \in 1..Len(searches) : searches[i].radio = bRadio}

SavedSearchItems(bRadio, idx) ==
  [k \in 1..Len(idx) |->
     [NewItem("search", [NoPath EXCEPT !.ns = "search", !.valid = TRUE,
                                       !.radio = bRadio, !.leaf = "savedsearch",
                                       !.id1 = searches[idx[k]].id], TRUE)
        EXCEPT !.ref = idx[k]]]

GetSavedSearchesDirectory(bRadio, resultsIn) ==
  BuilderResult(TRUE,
                resultsIn \o SavedSearchItems(bRadio, Ascending(SearchIndexes(bRadio))),
                0, "savedsearches")

\* the result tags of executing saved search f
SearchResultItems(bRadio, id, f) ==
  [k \in 1..searches[f].hits |->
     [NewItem("epg", [NoPath EXCEPT !.ns = "guide", !.valid = TRUE,
                                    !.radio = bRadio, !.id1 = id, !.id2 = k], FALSE)
        EXCEPT !.ref = k]]

\* CPVREpgContainer::GetSavedSearchById: 0 when there is none
GetSavedSearchById(bRadio, id) ==
  First({i \in SearchIndexes(bRadio) : searches[i].id = id})

GetSavedSearchResults(bRadio, id, resultsIn) ==
  IF GetSavedSearchById(bRadio, id) # 0
    THEN BuilderResult(TRUE,
           resultsIn \o SearchResultItems(bRadio, id, GetSavedSearchById(bRadio, id)),
           0, "savedsearchresults")
    ELSE BuilderResult(FALSE, resultsIn, 0, "savedsearchresults")

(***************************************************************************)
(* Timers                                                                  *)
(***************************************************************************)
\* CPVRTimersPath: timers/(tv|radio)/(timers|rules)[/<client>/<parent>]
CPVRTimersPath(url) ==
  IF /\ url.seg1 = W_timers
     /\ Len(url.segs) \in {2, 4}
     /\ url.segs[1] \in KindSegs
     /\ url.segs[2] \in {"timers", "rules"}
     /\ Len(url.segs) = 4 => (url.segs[3] = NUM /\ url.segs[4] = NUM)
    THEN [NoPath EXCEPT !.ns = "timers", !.valid = TRUE,
                        !.radio = (url.segs[1] = "radio"),
                        !.flag = (url.segs[2] = "rules"),
                        !.leaf = IF Len(url.segs) = 2 THEN "root" ELSE "rule",
                        !.id1 = IF Len(url.segs) = 4 THEN url.n1
                                ELSE PVR_CLIENT_INVALID_UID,
                        !.id2 = IF Len(url.segs) = 4 THEN url.n2
                                ELSE PVR_CLIENT_INVALID_UID]
    ELSE NoPath

IsTimersRoot(path) == path.leaf = "root"
IsTimerRule(path) == path.leaf = "rule"

\* CFileItem(timer) with the path CPVRTimersPath(path, ClientID, ClientIndex)
TimerItem(path, k) ==
  [NewItem("timer", [path EXCEPT !.leaf = "timer", !.id1 = timers[k].clientId,
                                 !.id2 = timers[k].clientIndex], FALSE)
     EXCEPT !.ref = k]

TimerItems(path, idx) == [i \in 1..Len(idx) |-> TimerItem(path, idx[i])]

\* a timer targeting any channel matches in the timers view as well
RootTimerMatchesAnyChannelAlways(path, bHideDisabled, timer) ==
  /\ \/ path.radio = timer.radio
     \/ timer.anyChannel
  /\ path.flag = timer.rule
  /\ (~bHideDisabled \/ ~timer.disabled)

RootTimerMatches(path, bHideDisabled, timer) ==
  /\ \/ path.radio = timer.radio
     \/ (path.flag /\ timer.anyChannel)
  /\ path.flag = timer.rule
  /\ (~bHideDisabled \/ ~timer.disabled)

GetTimersRootDirectory(path, bHideDisabled, resultsIn) ==
  BuilderResult(TRUE,
    resultsIn \o TimerItems(path,
      Ascending({k \in 1..Len(timers) :
                   RootTimerMatches(path, bHideDisabled, timers[k])})),
    0, "timers")

\* the path's client does not constrain the timers of the rule
SubTimerMatchesAnyClient(path, bHideDisabled, timer) ==
  /\ timer.radio = path.radio
  /\ timer.hasParent
  /\ timer.parentIndex = path.id2
  /\ (~bHideDisabled \/ ~timer.disabled)

SubTimerMatches(path, bHideDisabled, timer) ==
  /\ timer.radio = path.radio
  /\ timer.hasParent
  /\ (path.id1 = PVR_CLIENT_INVALID_UID \/ timer.clientId = path.id1)
  /\ timer.parentIndex = path.id2
  /\ (~bHideDisabled \/ ~timer.disabled)

GetTimersSubDirectory(path, bHideDisabled, resultsIn) ==
  BuilderResult(TRUE,
    resultsIn \o TimerItems(path,
      Ascending({k \in 1..Len(timers) :
                   SubTimerMatches(path, bHideDisabled, timers[k])})),
    0, "timers")

TimersViewSupported(view) == view = NoOption \/ view = "hidedisabled"

HideDisabled(view) ==
  IF view # NoOption THEN view = "hidedisabled" ELSE settings.hideDisabledTimers

TimersOfPath(url, path, resultsIn) ==
  IF path.valid /\ (IsTimersRoot(path) \/ IsTimerRule(path))
    THEN IF ~TimersViewSupported(url.view)
           THEN BuilderResult(FALSE, resultsIn, 0, "timers")
           ELSE IF IsTimersRoot(path)
                  THEN GetTimersRootDirectory(path, HideDisabled(url.view), resultsIn)
                  ELSE GetTimersSubDirectory(path, HideDisabled(url.view), resultsIn)
    ELSE BuilderResult(FALSE, resultsIn, 0, "timers")

GetTimersDirectory(url, resultsIn) ==
  TimersOfPath(url, CPVRTimersPath(url), resultsIn)

(***************************************************************************)
(* Channels and channel groups                                             *)
(***************************************************************************)
PVR_GROUP_ID_UNNKOWN == -1

\* CPVRChannelsPath: channels[/(tv|radio)[/<group>]]; the group's client is n1
CPVRChannelsPath(url) ==
  IF /\ url.seg1 = W_channels
     /\ Len(url.segs) \in 0..2
     /\ Len(url.segs) >= 1 => url.segs[1] \in KindSegs
    THEN [NoPath EXCEPT !.ns = "channels", !.valid = TRUE,
                        !.radio = (Len(url.segs) >= 1 /\ url.segs[1] = "radio"),
                        !.leaf = IF Len(url.segs) = 0 THEN "empty"
                                 ELSE IF Len(url.segs) = 1 THEN "root"
                                 ELSE "group",
                        !.group = IF Len(url.segs) = 2 THEN url.segs[2] ELSE "",
                        !.id1 = url.n1]
    ELSE NoPath

IsChannelsRoot(path) == path.leaf = "root"
IsChannelGroup(path) == path.leaf = "group"
IsHiddenChannelGroup(path) == path.leaf = "group" /\ path.group = ".hidden"

\* a group's path
GroupPath(g) ==
  [NoPath EXCEPT !.ns = "channels", !.valid = TRUE, !.radio = groups[g].radio,
                 !.leaf = "group", !.group = groups[g].name,
                 !.id1 = groups[g].clientId]

\* CPVRChannelGroups::GetMembers(bExcludeHidden): the groups of a kind
GroupsOfKind(bRadio, bExcludeHidden) ==
  Ascending({g \in 1..Len(groups) :
               /\ groups[g].radio = bRadio
               /\ (bExcludeHidden => ~groups[g].hidden)})

GroupItems(gs) ==
  [i \in 1..Len(gs) |->
     [NewItem("group", GroupPath(gs[i]), TRUE)
        EXCEPT !.label = groups[gs[i]].name, !.ref = gs[i]]]

GetChannelGroupsDirectory(bRadio, bExcludeHidden, resultsIn) ==
  BuilderResult(TRUE, resultsIn \o GroupItems(GroupsOfKind(bRadio, bExcludeHidden)),
                0, "channels")

\* a group member: the group and the channel
Member(g, c) == [g |-> g, c |-> c]
NoMember == Member(0, 0)

\* CPVRChannelGroup::GetByUniqueID(storage id)
GetByUniqueID(g, c) ==
  IF \E i \in 1..Len(groups[g].members) : groups[g].members[i] = c
    THEN Member(g, c) ELSE NoMember

\* CPVRChannelGroupsContainer::GetGroupAll(bRadio): 0 when there is none
GetGroupAll(bRadio) ==
  First({g \in 1..Len(groups) : groups[g].radio = bRadio /\ groups[g].all})

\* CPVRChannelGroups::GetByName(name, client): 0 when there is none
GetByName(bRadio, name, clientId) ==
  First({g \in 1..Len(groups) : /\ groups[g].radio = bRadio
                                 /\ groups[g].name = name
                                 /\ groups[g].clientId = clientId})

\* CPVRChannelGroup::GetMembers(Include::ALL)
AllMembers(g) == [i \in 1..Len(groups[g].members) |-> Member(g, groups[g].members[i])]

\* CPVRChannelGroup::GetMembers(Include::ONLY_VISIBLE)
VisibleMembers(g) ==
  SelectSeq(AllMembers(g), LAMBDA m : ~channels[m.c].hidden)

\* CPVRChannelGroupsContainer::GetByIdFromAll finds the group
GroupExists(id) == id \in 1..Len(groups)

\* the last-watched group supplies its member even when it is deleted
GetLastWatchedOfDeletedGroup(c) ==
  IF /\ channels[c].lastGroup # PVR_GROUP_ID_UNNKOWN
     /\ GroupExists(channels[c].lastGroup)
     /\ ~groups[channels[c].lastGroup].hidden
    THEN GetByUniqueID(channels[c].lastGroup, c)
    ELSE NoMember

GetLastWatchedChannelGroupMember(c) ==
  IF /\ channels[c].lastGroup # PVR_GROUP_ID_UNNKOWN
     /\ GroupExists(channels[c].lastGroup)
     /\ ~groups[channels[c].lastGroup].hidden
     /\ ~groups[channels[c].lastGroup].deleted
    THEN GetByUniqueID(channels[c].lastGroup, c)
    ELSE NoMember

\* the non-hidden, non-deleted groups of the channel's kind that hold it
MatchingGroups(c) ==
  {g \in 1..Len(groups) : /\ groups[g].radio = channels[c].radio
                           /\ ~groups[g].hidden
                           /\ ~groups[g].deleted
                           /\ GetByUniqueID(g, c) # NoMember}

GetFirstMatchingGroupMember(c) ==
  IF MatchingGroups(c) = {} THEN NoMember ELSE Member(First(MatchingGroups(c)), c)

\* the 'all channels' group is hidden: a member of another group or nothing
HiddenAllEntry(first) == IF first # NoMember THEN <<first>> ELSE <<>>

AllChannelsLadder(g, allGroupMember, member) ==
  IF member # NoMember
    THEN <<member>>
    ELSE IF groups[g].hidden
           THEN HiddenAllEntry(GetFirstMatchingGroupMember(allGroupMember.c))
           ELSE <<allGroupMember>>

\* the loop body of the 'all channels across all groups' case: the entries
\* one member of the 'all channels' group contributes
AllChannelsEntry(g, allGroupMember) ==
  AllChannelsLadder(g, allGroupMember,
                    GetLastWatchedChannelGroupMember(allGroupMember.c))

RECURSIVE Flatten(_)
Flatten(ss) == IF ss = <<>> THEN <<>> ELSE Head(ss) \o Flatten(Tail(ss))

AllChannelsEntries(g, vis) ==
  Flatten([i \in 1..Len(vis) |-> AllChannelsEntry(g, vis[i])])

MembersOfGroup(g) == IF g # 0 THEN AllMembers(g) ELSE <<>>

MembersAcrossGroups(g) ==
  IF g # 0 THEN AllChannelsEntries(g, VisibleMembers(g)) ELSE <<>>

GetChannelGroupMembers(path) ==
  IF IsHiddenChannelGroup(path)
    THEN MembersOfGroup(GetGroupAll(path.radio))
    ELSE IF path.group = "*"
           THEN MembersAcrossGroups(GetGroupAll(path.radio))
           ELSE MembersOfGroup(GetByName(path.radio, path.group, path.id1))

\* a channel added with its client's first channels counts as added later
AddedLaterOrAtFirst(channel) ==
  /\ channel.added # 0
  /\ ~ /\ channel.clientId \in DOMAIN clients
       /\ clients[channel.clientId] # 0
       /\ channel.added < clients[channel.clientId]

\* the channel was added after its client's first channels
AddedLater(channel) ==
  /\ channel.added # 0
  /\ ~ /\ channel.clientId \in DOMAIN clients
       /\ clients[channel.clientId] # 0
       /\ channel.added <= clients[channel.clientId]

\* the per-member filters of the channel group listing
ChannelListed(url, channel, showHiddenChannels, playedOnly, dateAdded) ==
  /\ ~Filter(url, channel)
  /\ showHiddenChannels = channel.hidden
  /\ ~(playedOnly /\ channel.lastWatched = 0)
  /\ dateAdded => AddedLater(channel)

MemberItem(member) ==
  [NewItem("channel",
           [NoPath EXCEPT !.ns = "channel", !.valid = TRUE,
                          !.radio = channels[member.c].radio,
                          !.group = groups[member.g].name,
                          !.id1 = member.g, !.id2 = member.c], FALSE)
     EXCEPT !.ref = member.c]

ChannelItem(member, dateAdded) ==
  IF dateAdded THEN SetProperty(MemberItem(member), "hideable", TRUE)
               ELSE MemberItem(member)

ChannelItems(listed, dateAdded) ==
  [i \in 1..Len(listed) |-> ChannelItem(listed[i], dateAdded)]

\* the view option asks for the played channels only
PlayedOnly(url) == HasOption(url) /\ url.view = "lastplayed"

\* the view option asks for the channels by date added
DateAdded(url) == HasOption(url) /\ url.view = "dateadded"

ChannelGroupListing(url, path, playedOnly, dateAdded, resultsIn) ==
  BuilderResult(TRUE,
    resultsIn \o ChannelItems(
      SelectSeq(GetChannelGroupMembers(path),
                LAMBDA m : ChannelListed(url, channels[m.c], IsHiddenChannelGroup(path),
                                         playedOnly, dateAdded)),
      dateAdded),
    0, "channels")

ChannelsOfPath(url, path, resultsIn) ==
  IF ~path.valid
    THEN BuilderResult(FALSE, resultsIn, 0, "channels")
    ELSE IF path.leaf = "empty"
      THEN BuilderResult(TRUE,
             resultsIn \o <<MenuItem("channels", FALSE, "TV"),
                            MenuItem("channels", TRUE, "Radio")>>,
             0, "channels")
      ELSE IF IsChannelsRoot(path)
        THEN GetChannelGroupsDirectory(path.radio, TRUE, resultsIn)
        ELSE ChannelGroupListing(url, path, PlayedOnly(url), DateAdded(url), resultsIn)

GetChannelsDirectory(url, resultsIn) ==
  ChannelsOfPath(url, CPVRChannelsPath(url), resultsIn)

(***************************************************************************)
(* Providers                                                               *)
(***************************************************************************)
\* CPVRProvidersPath: providers/(tv|radio)[/<client>@<uid>[/channels|recordings]]
CPVRProvidersPath(url) ==
  IF /\ url.seg1 = W_providers
     /\ Len(url.segs) \in 1..3
     /\ url.segs[1] \in KindSegs
     /\ Len(url.segs) >= 2 => url.segs[2] = NUM
     /\ Len(url.segs) = 3 => url.segs[3] \in {"channels", "recordings"}
    THEN [NoPath EXCEPT !.ns = "providers", !.valid = TRUE,
                        !.radio = (url.segs[1] = "radio"),
                        !.leaf = IF Len(url.segs) = 1 THEN "root"
                                 ELSE IF Len(url.segs) = 2 THEN "provider"
                                 ELSE url.segs[3],
                        !.id1 = IF Len(url.segs) >= 2 THEN url.n1
                                ELSE PVR_CLIENT_INVALID_UID,
                        !.id2 = IF Len(url.segs) >= 2 THEN url.n2
                                ELSE PVR_PROVIDER_INVALID_UID]
    ELSE NoPath

ChannelsOfProvider(g, clientId, providerUid) ==
  IF g = 0 THEN 0
  ELSE Cardinality({i \in 1..Len(groups[g].members) :
         /\ channels[groups[g].members[i]].clientId = clientId
         /\ channels[groups[g].members[i]].providerUid = providerUid})

\* CPVRChannelGroupsContainer::GetChannelCountByProvider
GetChannelCountByProvider(bRadio, clientId, providerUid) ==
  ChannelsOfProvider(GetGroupAll(bRadio), clientId, providerUid)

HasChannelForProvider(bRadio, clientId, providerUid) ==
  GetChannelCountByProvider(bRadio, clientId, providerUid) > 0

\* CPVRRecordings::GetRecordingCountByProvider
GetRecordingCountByProvider(bRadio, clientId, providerUid) ==
  Cardinality({k \in 1..Len(recordings) :
    /\ recordings[k].radio = bRadio
    /\ recordings[k].clientId = clientId
    /\ recordings[k].providerUid = providerUid})

HasRecordingForProvider(bRadio, clientId, providerUid) ==
  GetRecordingCountByProvider(bRadio, clientId, providerUid) > 0

ProviderPath(bRadio, clientId, uid, leaf) ==
  [NoPath EXCEPT !.ns = "providers", !.valid = TRUE, !.radio = bRadio,
                 !.leaf = leaf, !.id1 = clientId, !.id2 = uid]

\* an entry shown with its total count, when the count is not zero
CountItem(path, label, count) ==
  IF count > 0
    THEN <<SetProperty([NewItem("menu", path, TRUE) EXCEPT !.label = label],
                       "totalcount", count)>>
    ELSE <<>>

ProviderItems(bRadio, idx) ==
  [i \in 1..Len(idx) |->
     [NewItem("provider",
              ProviderPath(bRadio, providers[idx[i]].clientId,
                           providers[idx[i]].uid, "provider"), TRUE)
        EXCEPT !.ref = idx[i]]]

\* the providers root lists only the providers with a channel
ProvidersRootChannelsOnly(path, resultsIn) ==
  BuilderResult(TRUE,
    resultsIn \o ProviderItems(path.radio,
      Ascending({k \in 1..Len(providers) :
        HasChannelForProvider(path.radio, providers[k].clientId, providers[k].uid)})),
    0, "providers")

\* the providers root: the providers with a channel or a recording
ProvidersRoot(path, resultsIn) ==
  BuilderResult(TRUE,
    resultsIn \o ProviderItems(path.radio,
      Ascending({k \in 1..Len(providers) :
        \/ HasChannelForProvider(path.radio, providers[k].clientId, providers[k].uid)
        \/ HasRecordingForProvider(path.radio, providers[k].clientId,
                                   providers[k].uid)})),
    0, "providers")

\* one provider: its channels and its recordings folders
ProviderFolders(path, resultsIn) ==
  BuilderResult(TRUE,
    resultsIn
      \o CountItem(ProviderPath(path.radio, path.id1, path.id2, "channels"),
                   "Channels",
                   GetChannelCountByProvider(path.radio, path.id1, path.id2))
      \o CountItem(ProviderPath(path.radio, path.id1, path.id2, "recordings"),
                   "Recordings",
                   GetRecordingCountByProvider(path.radio, path.id1, path.id2)),
    0, "providers")

\* the channels of a provider, from the 'all channels' group g
ProviderChannels(path, g, resultsIn) ==
  IF g = 0
    THEN BuilderResult(FALSE, resultsIn, 0, "providers")
    ELSE BuilderResult(TRUE,
           resultsIn \o ChannelItems(
             SelectSeq(VisibleMembers(g), LAMBDA m :
               /\ channels[m.c].clientId = path.id1
               /\ (path.id2 # PVR_PROVIDER_INVALID_UID
                     => channels[m.c].providerUid = path.id2)),
             FALSE),
           0, "providers")

ProviderRecordingItems(idx) ==
  [i \in 1..Len(idx) |-> [RecordingItem(recordings, idx[i]) EXCEPT !.overlay = "none"]]

\* the recordings of a provider
ProviderRecordings(path, resultsIn) ==
  BuilderResult(TRUE,
    resultsIn \o ProviderRecordingItems(
      Ascending({k \in 1..Len(recordings) :
        /\ recordings[k].radio = path.radio
        /\ recordings[k].clientId = path.id1
        /\ (path.id2 # PVR_PROVIDER_INVALID_UID
              => recordings[k].providerUid = path.id2)})),
    0, "providers")

ProvidersOfPath(path, resultsIn) ==
  IF ~path.valid
    THEN BuilderResult(FALSE, resultsIn, 0, "providers")
    ELSE CASE path.leaf = "root" -> ProvidersRoot(path, resultsIn)
           [] path.leaf = "provider" -> ProviderFolders(path, resultsIn)
           [] path.leaf = "channels" ->
                ProviderChannels(path, GetGroupAll(path.radio), resultsIn)
           [] OTHER -> ProviderRecordings(path, resultsIn)

GetProvidersDirectory(url, resultsIn) ==
  ProvidersOfPath(CPVRProvidersPath(url), resultsIn)

(***************************************************************************)
(* CPVRGUIDirectory::GetDirectory: the router                              *)
(***************************************************************************)
\* the entries of the empty path's menu
TopMenu(resultsIn) ==
  resultsIn \o <<MenuItem("channels", FALSE, "Channels"),
                 MenuItem("recordings", FALSE, "Recordings"),
                 MenuItem("recordings", FALSE, "Deleted recordings")>>

\* the namespace the file name is routed to: the first match of the chain,
\* "" when nothing matches
RoutedNamespace(url) ==
  IF FileNameEmpty(url) THEN "empty"
  ELSE IF StartsWith(url.seg1, W_tv) THEN "tv"
  ELSE IF StartsWith(url.seg1, W_radio) THEN "radio"
  ELSE IF StartsWith(url.seg1, W_recordings) THEN "recordings"
  ELSE IF StartsWith(url.seg1, W_channels) THEN "channels"
  ELSE IF StartsWith(url.seg1, W_providers) THEN "providers"
  ELSE IF StartsWith(url.seg1, W_timers) THEN "timers"
  ELSE IF CPVREpgSearchPath(url).valid THEN "search"
  ELSE ""

\* the tail of GetDirectory: a valid EPG search path
SearchOfPath(path, resultsIn) ==
  IF IsSavedSearchesRoot(path)
    THEN GetSavedSearchesDirectory(path.radio, resultsIn)
    ELSE IF IsSavedSearch(path)
           THEN GetSavedSearchResults(path.radio, path.id1, resultsIn)
           ELSE BuilderResult(TRUE, resultsIn, 0, "none")

\* the builder a routed namespace runs while the backend is started
RunBuilder(ns, url, resultsIn) ==
  CASE ns = "empty" -> BuilderResult(TRUE, TopMenu(resultsIn), 0, "menu")
    [] ns = "tv" -> BuilderResult(TRUE, GetRootDirectory(FALSE, resultsIn), 0, "root")
    [] ns = "radio" -> BuilderResult(TRUE, GetRootDirectory(TRUE, resultsIn), 0, "root")
    [] ns = "recordings" ->
         GetRecordingsDirectory(url, recordings, settings.groupRecordings, resultsIn)
    [] ns = "channels" -> GetChannelsDirectory(url, resultsIn)
    [] ns = "providers" -> GetProvidersDirectory(url, resultsIn)
    [] ns = "timers" -> GetTimersDirectory(url, resultsIn)
    [] OTHER -> SearchOfPath(CPVREpgSearchPath(url), resultsIn)

\* a plausible slip: the started check is skipped
RoutedUnguarded(ns, url, isStarted, resultsIn) ==
  IF ns = ""
    THEN BuilderResult(FALSE, resultsIn, 0, "none")
    ELSE RunBuilder(ns, url, resultsIn)

\* every branch of the chain asks IsStarted before it runs its builder
Routed(ns, url, isStarted, resultsIn) ==
  IF ns = ""
    THEN BuilderResult(FALSE, resultsIn, 0, "none")
    ELSE IF isStarted
           THEN RunBuilder(ns, url, resultsIn)
           ELSE BuilderResult(TRUE, resultsIn, 0, "none")

\* what GetDirectory returns and leaves in the results
GetDirectoryResult(url, isStarted, resultsIn) ==
  Routed(RoutedNamespace(url), url, isStarted, resultsIn)

(***************************************************************************)
(* CPVRRecordingFoldersInProgressEpisodesCountJob                          *)
(***************************************************************************)
NoJob == [pc |-> "none", folders |-> <<>>, recs |-> <<>>, idx |-> 0]

\* a plausible slip: the job keeps the caller's items instead of copies
JobFolderIdsShared(nList, nJob) == [i \in 1..nJob |-> i]

\* m_folders.Copy(folders): the identities of the job's own copies, which
\* follow the nList entries of the caller's listing
JobFolderIds(nList, nJob) == [i \in 1..nJob |-> nList + i]

\* CPVRRecordingsPath{folder->GetPath()}
PathOfItem(item) ==
  IF item.path.ns = "recordings" /\ item.path.valid THEN item.path ELSE NoPath

\* CPVRRecording::GetResumePoint().IsPartWay(): asks the backend
GetResumePointIsPartWay(recording) == recording.backend

\* the inner loop of DoWork: the in-progress recordings of one folder
RECURSIVE CountInProgress(_, _, _, _)
CountInProgress(folderUrl, recPath, recs, k) ==
  IF k > Len(recs)
    THEN 0
    ELSE (IF \/ recs[k].deleted # recPath.flag
             \/ recs[k].radio # recPath.radio
             \/ Filter(folderUrl, recs[k])
             \/ ~IsDirectoryMember(GetUnescapedDirectoryPath(recPath),
                                   recs[k].dir, TRUE)
             \/ ~GetResumePointIsPartWay(recs[k])
            THEN 0 ELSE 1)
         + CountInProgress(folderUrl, recPath, recs, k + 1)

InProgressEpisodes(folder, recs) ==
  CountInProgress(UrlOfPath(folder.path), PathOfItem(folder), recs, 1)

\* a plausible slip: every visited folder is notified
FolderChangedAlways(folder, recs) == PathOfItem(folder).valid

\* the folder is updated and notified
FolderChanged(folder, recs) ==
  /\ PathOfItem(folder).valid
  /\ InProgressEpisodes(folder, recs) # GetProperty(folder, "inprogressepisodes", 0)

(***************************************************************************)
(* Actions                                                                 *)
(***************************************************************************)
Idle == [active |-> FALSE, url |-> MkUrl(<<>>, <<>>, <<>>, 0, 0, NoOption, 0, 0),
         ret |-> FALSE, builder |-> "none", started |-> FALSE, pre |-> 0]

NoProbe == [op |-> "none", dir |-> <<>>, entry |-> <<>>, grouped |-> FALSE,
            out |-> FALSE]

\* the call returns r: the caller holds the listing, the job manager the job
Deliver(url, r, pre) ==
  /\ call' = [active |-> TRUE, url |-> url, ret |-> r.ok,
              builder |-> r.builder, started |-> started, pre |-> pre]
  /\ results' = [i \in 1..Len(r.list) |-> i]
  /\ items' = r.list \o SubSeq(r.list, 1, r.nJob)
  /\ job' = IF r.nJob > 0
              THEN [pc |-> "queued", folders |-> JobFolderIds(Len(r.list), r.nJob),
                    recs |-> recordings, idx |-> 0]
              ELSE NoJob

\* one GetDirectory call on a fresh, empty CFileItemList
GetDirectory(url) ==
  /\ ~call.active
  /\ Deliver(url, GetDirectoryResult(url, started, <<>>), 0)
  /\ UNCHANGED <<started, backend, sent, probe>>

\* an entry of another directory, which the caller's list already holds
Existing == [NewItem("menu", NoPath, FALSE) EXCEPT !.label = "existing"]

\* one GetDirectory call on a CFileItemList that already holds an entry
GetDirectoryAppend(url) ==
  /\ ~call.active
  /\ Deliver(url, GetDirectoryResult(url, started, <<Existing>>), 1)
  /\ UNCHANGED <<started, backend, sent, probe>>

\* DoWork begins: nothing to do without recordings or folders
DoWorkBegin ==
  /\ job.pc = "queued"
  /\ job' = IF job.recs = <<>> \/ job.folders = <<>>
              THEN [job EXCEPT !.pc = "done"]
              ELSE [job EXCEPT !.pc = "running", !.idx = 1]
  /\ UNCHANGED <<started, backend, items, results, call, sent, probe>>

\* one pass of DoWork's loop body over the folder of identity id
VisitFolder(id, folder) ==
  IF FolderChanged(folder, job.recs)
    THEN /\ items' = [items EXCEPT ![id] =
              SetProperty(folder, "inprogressepisodes",
                          InProgressEpisodes(folder, job.recs))]
         /\ sent' = Append(sent, id)
    ELSE UNCHANGED <<items, sent>>

\* DoWork's loop body for the next folder of m_folders
DoWorkFolder ==
  /\ job.pc = "running"
  /\ job.idx <= Len(job.folders)
  /\ VisitFolder(job.folders[job.idx], items[job.folders[job.idx]])
  /\ job' = [job EXCEPT !.idx = job.idx + 1]
  /\ UNCHANGED <<started, backend, results, call, probe>>

\* DoWork returns
DoWorkEnd ==
  /\ job.pc = "running"
  /\ job.idx > Len(job.folders)
  /\ job' = [job EXCEPT !.pc = "done"]
  /\ UNCHANGED <<started, backend, items, results, call, sent, probe>>

\* the caller changes the first entry of its listing
CallerEdit ==
  /\ call.active
  /\ results # <<>>
  /\ ~GetProperty(items[results[1]], "edited", FALSE)
  /\ items' = [items EXCEPT ![results[1]] = SetProperty(@, "edited", TRUE)]
  /\ UNCHANGED <<started, backend, results, call, job, sent, probe>>

\* the caller releases its listing
CallerRelease ==
  /\ call.active
  /\ results # <<>>
  /\ results' = <<>>
  /\ UNCHANGED <<started, backend, items, call, job, sent, probe>>

\* the call is over and its job has run: everything of it is forgotten
Forget ==
  /\ call.active
  /\ job.pc \in {"none", "done"}
  /\ call' = Idle
  /\ items' = <<>>
  /\ results' = <<>>
  /\ job' = NoJob
  /\ sent' = <<>>
  /\ UNCHANGED <<started, backend, probe>>

\* the PVR manager starts or stops between calls
StartStop ==
  /\ ~call.active
  /\ started' = ~started
  /\ UNCHANGED <<backend, items, results, call, job, sent, probe>>

\* IsDirectoryMember applied to the probe's arguments
ApplyIsDirectoryMember ==
  /\ probe.op = "args"
  /\ probe' = [probe EXCEPT !.op = "done",
                 !.out = IsDirectoryMember(probe.dir, probe.entry, probe.grouped)]
  /\ UNCHANGED <<started, backend, items, results, call, job, sent>>

(***************************************************************************)
(* Resolve                                                                 *)
(***************************************************************************)
\* the paths Resolve tells apart: a PVR url of a channel, a recording, a
\* guide item (each naming an entity) or of something else, a url of another
\* protocol, and the empty path
PvrUrl(kind, id) == [pvr |-> TRUE, kind |-> kind, id |-> id]
PluginUrl == [pvr |-> FALSE, kind |-> "plugin", id |-> 0]
EmptyUrl == [pvr |-> FALSE, kind |-> "", id |-> 0]

\* URIUtils::IsPVR, IsPVRChannel, IsPVRRecording, IsPVRGuideItem
IsPVR(u) == u.pvr
IsPVRChannel(u) == u.pvr /\ u.kind = "channel"
IsPVRRecording(u) == u.pvr /\ u.kind = "recording"
IsPVRGuideItem(u) == u.pvr /\ u.kind = "guide"

\* an item with a path and a dyn path, and the entity it carries
PlayItem(path, dynPath, tag) == [path |-> path, dynPath |-> dynPath, tag |-> tag]

\* CFileItem::GetDynPath: the path when there is no dyn path
GetDynPath(item) == IF item.dynPath # EmptyUrl THEN item.dynPath ELSE item.path

\* CFileItem(groupMember), CFileItem(recording), CFileItem(epgTag)
EntityItem(u) == PlayItem(u, EmptyUrl, u.kind)

\* GetChannelGroupMemberByPath, CPVRRecordings::GetByPath and
\* CPVREpgContainer::GetTagByPath find the entity of the path
FoundByPath(u, epgTags) ==
  \/ IsPVRChannel(u) /\ \E g \in 1..Len(groups) : GetByUniqueID(g, u.id) # NoMember
  \/ IsPVRRecording(u) /\ u.id \in 1..Len(recordings)
  \/ IsPVRGuideItem(u) /\ u.id \in epgTags

\* the item is replaced although no entity was found
ResolveNonPVRItemAlwaysReplacing(item, epgTags) == EntityItem(GetDynPath(item))

ResolveNonPVRItem(item, epgTags) ==
  IF FoundByPath(GetDynPath(item), epgTags)
    THEN EntityItem(GetDynPath(item))
    ELSE item

\* Resolve is called with an item; epgTags are the guide entries there are
ResolveCall(item, epgTags) ==
  /\ probe.op = "none"
  /\ ~call.active
  /\ probe' = [op |-> "resolve", pc |-> "check", item |-> item, given |-> item,
               epgTags |-> epgTags, prepared |-> <<>>, answer |-> FALSE,
               ret |-> FALSE]
  /\ UNCHANGED <<started, backend, items, results, call, job, sent>>

\* the test of path and dyn path
ResolveCheck ==
  /\ probe.op = "resolve"
  /\ probe.pc = "check"
  /\ probe' = IF ~IsPVR(probe.item.path)
                THEN IF IsPVR(GetDynPath(probe.item))
                       THEN [probe EXCEPT !.pc = "nonpvr"]
                       ELSE [probe EXCEPT !.pc = "done", !.ret = FALSE]
                ELSE [probe EXCEPT !.pc = "prepare"]
  /\ UNCHANGED <<started, backend, items, results, call, job, sent>>

\* the call of ResolveNonPVRItem
ResolveReplace ==
  /\ probe.op = "resolve"
  /\ probe.pc = "nonpvr"
  /\ probe' = [probe EXCEPT !.pc = "prepare",
                            !.item = ResolveNonPVRItem(probe.item, probe.epgTags)]
  /\ UNCHANGED <<started, backend, items, results, call, job, sent>>

\* the playback state is handed the item and answers; Resolve returns that
OnPreparePlayback(answer) ==
  /\ probe.op = "resolve"
  /\ probe.pc = "prepare"
  /\ probe' = [probe EXCEPT !.pc = "done",
                            !.prepared = Append(probe.prepared, probe.item),
                            !.answer = answer, !.ret = answer]
  /\ UNCHANGED <<started, backend, items, results, call, job, sent>>

\* the caller has the result
ResolveReturn ==
  /\ probe.op = "resolve"
  /\ probe.pc = "done"
  /\ probe' = NoProbe
  /\ UNCHANGED <<started, backend, items, results, call, job, sent>>

(***************************************************************************)
(* GetRecordingsDirectoryInfo                                              *)
(***************************************************************************)
\* the date-time test of the loop: an invalid date-time (0) is before every
\* recording time
InfoDateTime(item, recording) ==
  IF item.dateTime # 0 \/ item.dateTime < recording.time
    THEN [item EXCEPT !.dateTime = recording.time]
    ELSE item

\* GetResumePoint().IsPartWay() decides, not the cached resume point
CountInProgressBackend(item, recording) ==
  IF GetResumePointIsPartWay(recording)
    THEN IncrementProperty(item, "inprogressepisodes", 1)
    ELSE item

\* the loop body for a result with a recording
InfoCountRecording(item, recording) ==
  CountInProgressBackend(
    CountWatched(IncrementProperty(InfoDateTime(item, recording), "totalepisodes", 1),
                 recording),
    recording)

\* the loop over the results; st.item is the item, st.size is sizeInBytes
RECURSIVE InfoLoop(_, _, _, _)
InfoLoop(list, recs, k, st) ==
  IF k > Len(list)
    THEN st
    ELSE InfoLoop(list, recs, k + 1,
                  IF list[k].kind # "recording"
                    THEN st
                    ELSE [item |-> InfoCountRecording(st.item, recs[list[k].ref]),
                          size |-> st.size + recs[list[k].ref].size])

\* the properties are reset before the loop
InfoReset(item) ==
  [item EXCEPT !.props =
     [k \in DOMAIN item.props \cup {"totalepisodes", "watchedepisodes",
                                    "unwatchedepisodes", "inprogressepisodes"} |->
        IF k \in {"totalepisodes", "watchedepisodes", "unwatchedepisodes",
                  "inprogressepisodes"}
          THEN 0 ELSE item.props[k]]]

\* after the loop: the size as a string, and the overlay
InfoFinish(st) ==
  [SetProperty(st.item, "recordingsize", <<"SizeToString", st.size>>)
     EXCEPT !.overlay = IF GetProperty(st.item, "unwatchedepisodes", 0) > 0
                          THEN "unwatched" ELSE "watched"]

InfoResult(item, list, recs) ==
  InfoFinish(InfoLoop(list, recs, 1, [item |-> InfoReset(item), size |-> 0]))

\* the call returns: r is the listing of the item's directory, whose job the
\* job manager holds
InfoDeliver(item, r) ==
  /\ probe' = [op |-> "info", given |-> item, listed |-> r.list, ret |-> r.ok,
               item |-> IF r.ok THEN InfoResult(item, r.list, recordings) ELSE item]
  /\ items' = SubSeq(r.list, 1, r.nJob)
  /\ job' = IF r.nJob > 0
              THEN [pc |-> "queued", folders |-> JobFolderIds(0, r.nJob),
                    recs |-> recordings, idx |-> 0]
              ELSE NoJob

\* GetRecordingsDirectoryInfo on an item with the path of url
GetRecordingsDirectoryInfo(url, item) ==
  /\ probe.op = "none"
  /\ ~call.active
  /\ job.pc = "none"
  /\ InfoDeliver(item, GetRecordingsDirectory(url, recordings,
                                              settings.groupRecordings, <<>>))
  /\ UNCHANGED <<started, backend, results, call, sent>>

\* the caller has the item and the job has run
InfoReturn ==
  /\ probe.op = "info"
  /\ job.pc \in {"none", "done"}
  /\ probe' = NoProbe
  /\ items' = <<>>
  /\ job' = NoJob
  /\ sent' = <<>>
  /\ UNCHANGED <<started, backend, results, call>>

(***************************************************************************)
(* Initial states                                                          *)
(***************************************************************************)
SeqsUpTo(U, n) == UNION {[1..k -> U] : k \in 0..n}

D_a == <<"a">>
D_ab == <<"a", "b">>
D_a_b == <<"a", SLASH, "b">>
D_A_b == <<"A", SLASH, "b">>
D_A_B == <<"A", SLASH, "B">>
D_a_b_c == <<"a", SLASH, "b", SLASH, "c">>

\* a recording of client 1, provider 1: active, tv, unwatched, not in progress
Rec(dir) ==
  [dir |-> dir, deleted |-> FALSE, radio |-> FALSE, playCount |-> 0,
   clientId |-> 1, providerUid |-> 1, time |-> 1, size |-> 1,
   local |-> FALSE, backend |-> FALSE]

RecDirs == {<<>>, D_a, D_a_b, D_ab, D_A_b}

\* the recordings of the grouping specification: every directory, watched or
\* not, or deleted, or radio, or of another client, or of another provider
RecUniverse ==
  UNION {{Rec(d),
          [Rec(d) EXCEPT !.playCount = 1],
          [Rec(d) EXCEPT !.deleted = TRUE],
          [Rec(d) EXCEPT !.radio = TRUE],
          [Rec(d) EXCEPT !.clientId = 2],
          [Rec(d) EXCEPT !.providerUid = 2]} : d \in RecDirs}

\* the recordings of the refresh-job specification: every directory, with
\* the cached resume state, the backend's, or neither part way through
JobRecUniverse ==
  {[Rec(d) EXCEPT !.local = lb[1], !.backend = lb[2]] :
     d \in {D_a, D_a_b, D_A_b},
     lb \in {<<FALSE, FALSE>>, <<FALSE, TRUE>>, <<TRUE, FALSE>>}}

RecUrl(kind, state, dir, view, clientId, providerId) ==
  MkUrl(W_recordings, <<kind, state>>, dir, PVR_CLIENT_INVALID_UID,
        PVR_CLIENT_INVALID_UID, view, clientId, providerId)

NoClient == PVR_CLIENT_INVALID_UID
NoProvider == PVR_PROVIDER_INVALID_UID

RecUrls ==
  {RecUrl("tv", "active", d, v, NoClient, NoProvider) :
     d \in {<<>>, D_a}, v \in {"grouped", "flat"}}
  \cup {RecUrl("tv", "active", <<>>, NoOption, NoClient, NoProvider),
        RecUrl("tv", "deleted", <<>>, "grouped", NoClient, NoProvider),
        RecUrl("radio", "active", <<>>, "grouped", NoClient, NoProvider),
        RecUrl("tv", "active", <<>>, "grouped", 1, NoProvider),
        RecUrl("tv", "active", <<>>, "grouped", 1, 1),
        RecUrl("tv", "active", <<>>, "bogus", NoClient, NoProvider),
        MkUrl(W_recordings, <<"tv">>, <<>>, NoClient, NoClient, "grouped",
              NoClient, NoProvider)}

JobUrls ==
  {RecUrl("tv", "active", <<>>, "grouped", NoClient, NoProvider),
   RecUrl("tv", "active", D_a, "grouped", NoClient, NoProvider)}

EmptyBackend ==
  /\ caps = [epg |-> TRUE, rec |-> TRUE]
  /\ timers = <<>>
  /\ channels = <<>>
  /\ groups = <<>>
  /\ clients = <<>>
  /\ providers = <<>>
  /\ searches = <<>>

NoCall ==
  /\ items = <<>>
  /\ results = <<>>
  /\ call = Idle
  /\ job = NoJob
  /\ sent = <<>>

\* the recordings specification: the grouped and flat listings
InitRec ==
  /\ started = TRUE
  /\ settings \in [groupRecordings : BOOLEAN, hideDisabledTimers : {FALSE}]
  /\ recordings \in SeqsUpTo(RecUniverse, MaxRecs)
  /\ EmptyBackend
  /\ NoCall
  /\ probe = NoProbe

NextRec ==
  \/ \E url \in RecUrls : GetDirectory(url)
  \/ Forget

SpecRec == InitRec /\ [][NextRec]_vars

\* the refresh-job specification: the listing, its job and its caller
InitJob ==
  /\ started = TRUE
  /\ settings = [groupRecordings |-> TRUE, hideDisabledTimers |-> FALSE]
  /\ recordings \in SeqsUpTo(JobRecUniverse, MaxRecs)
  /\ EmptyBackend
  /\ NoCall
  /\ probe = NoProbe

NextJob ==
  \/ \E url \in JobUrls : GetDirectory(url)
  \/ \E url \in JobUrls : GetDirectoryAppend(url)
  \/ DoWorkBegin
  \/ DoWorkFolder
  \/ DoWorkEnd
  \/ CallerEdit
  \/ CallerRelease
  \/ Forget

\* the job manager runs a queued job: each step of DoWork is taken
SpecJob ==
  /\ InitJob
  /\ [][NextJob]_vars
  /\ WF_vars(DoWorkBegin)
  /\ WF_vars(DoWorkFolder)
  /\ WF_vars(DoWorkEnd)

\* the membership specification: IsDirectoryMember on bounded strings
ProbeAlphabet == {"a", "A", "b", SLASH}

ProbeStrings ==
  SeqsUpTo(ProbeAlphabet, MaxLen) \cup {D_a_b, D_A_B, D_a_b_c}

InitMember ==
  /\ started = FALSE
  /\ settings = [groupRecordings |-> TRUE, hideDisabledTimers |-> FALSE]
  /\ recordings = <<>>
  /\ EmptyBackend
  /\ NoCall
  /\ probe \in [op : {"args"}, dir : ProbeStrings, entry : ProbeStrings,
                grouped : BOOLEAN, out : {FALSE}]

NextMember == ApplyIsDirectoryMember

SpecMember == InitMember /\ [][NextMember]_vars

(***************************************************************************)
(* The router specification: GetDirectory on every kind of path, with the  *)
(* PVR manager started or not.                                             *)
(***************************************************************************)
Url(seg1, segs, n1, n2, view) ==
  MkUrl(seg1, segs, <<>>, n1, n2, view, NoClient, NoProvider)

\* a backend with recordings, channels, groups, timers, providers, searches
FixtureRecordings ==
  <<[Rec(D_a) EXCEPT !.backend = TRUE],
    [Rec(D_a_b) EXCEPT !.playCount = 1, !.local = TRUE],
    Rec(<<>>)>>

Channel(bRadio, clientId, bHidden, lastWatched, lastGroup, added) ==
  [radio |-> bRadio, clientId |-> clientId, providerUid |-> 1, hidden |-> bHidden,
   lastWatched |-> lastWatched, lastGroup |-> lastGroup, added |-> added]

FixtureChannels ==
  <<Channel(FALSE, 1, FALSE, 5, 2, 3),
    Channel(FALSE, 1, TRUE, 0, PVR_GROUP_ID_UNNKOWN, 0),
    Channel(FALSE, 2, FALSE, 0, PVR_GROUP_ID_UNNKOWN, 1)>>

Group(bRadio, name, clientId, bAll, members) ==
  [radio |-> bRadio, name |-> name, clientId |-> clientId, hidden |-> FALSE,
   deleted |-> FALSE, all |-> bAll, members |-> members]

FixtureGroups ==
  <<Group(FALSE, "all", PVR_CLIENT_INVALID_UID, TRUE, <<1, 2, 3>>),
    Group(FALSE, "fav", 1, FALSE, <<1>>)>>

Timer(bRule, bDisabled, clientIndex, bHasParent, parentIndex) ==
  [radio |-> FALSE, rule |-> bRule, disabled |-> bDisabled, anyChannel |-> bRule,
   clientId |-> 1, clientIndex |-> clientIndex, hasParent |-> bHasParent,
   parentIndex |-> parentIndex]

FixtureTimers ==
  <<Timer(TRUE, FALSE, 1, FALSE, 0),
    Timer(FALSE, FALSE, 2, TRUE, 1),
    Timer(FALSE, TRUE, 3, FALSE, 0)>>

FixtureProviders == <<[clientId |-> 1, uid |-> 1], [clientId |-> 2, uid |-> 1]>>

FixtureSearches == <<[radio |-> FALSE, id |-> 1, hits |-> 2]>>

RecordingsUrls ==
  {Url(W_recordings, <<"tv", "active">>, NoClient, NoClient, v) :
     v \in {NoOption, "grouped", "flat", "bogus"}}
  \cup {Url(W_recordings, <<"tv">>, NoClient, NoClient, v) : v \in {NoOption, "bogus"}}

ChannelsUrls ==
  {Url(W_channels, <<"tv", g>>, NoClient, NoClient, v) :
     g \in {"*", ".hidden"}, v \in {NoOption, "lastplayed", "dateadded", "bogus"}}
  \cup {Url(W_channels, <<"tv", "fav">>, 1, NoClient, v) : v \in {NoOption, "bogus"}}
  \cup {Url(W_channels, <<>>, NoClient, NoClient, NoOption),
        Url(W_channels, <<"tv">>, NoClient, NoClient, "bogus"),
        Url(W_channels, <<"radio", "*">>, NoClient, NoClient, NoOption),
        Url(W_channels, <<"bad">>, NoClient, NoClient, NoOption)}

ProvidersUrls ==
  {Url(W_providers, segs, 1, 1, NoOption) :
     segs \in {<<"tv">>, <<"tv", NUM>>, <<"tv", NUM, "channels">>,
               <<"tv", NUM, "recordings">>, <<"radio", NUM, "channels">>, <<>>}}

TimersUrls ==
  {Url(W_timers, segs, 1, 1, v) :
     segs \in {<<"tv", "timers">>, <<"tv", "rules">>, <<"tv", "rules", NUM, NUM>>,
               <<"tv">>},
     v \in {NoOption, "hidedisabled", "bogus"}}

SearchUrls ==
  {Url(W_search, segs, id, NoClient, NoOption) :
     segs \in {<<"tv">>, <<"tv", "savedsearches">>, <<"tv", "savedsearches", NUM>>,
               <<>>},
     id \in {1, 2}}

\* file names that only begin with a namespace's name, and ones that match
\* nothing
OtherUrls ==
  {Url(w \o <<"x">>, <<>>, NoClient, NoClient, NoOption) :
     w \in {W_tv, W_radio, W_recordings, W_channels, W_providers, W_timers, W_search,
            <<>>}}
  \cup {Url(W_recordings \o <<"x">>, <<"tv", "active">>, NoClient, NoClient, "grouped"),
        Url(W_search \o <<"x">>, <<"tv", "savedsearches">>, NoClient, NoClient, NoOption),
        Url(<<"t">>, <<>>, NoClient, NoClient, NoOption)}

RouterUrls ==
  {Url(<<>>, <<>>, NoClient, NoClient, NoOption),
   Url(W_tv, <<>>, NoClient, NoClient, NoOption),
   Url(W_radio, <<>>, NoClient, NoClient, NoOption)}
  \cup RecordingsUrls \cup ChannelsUrls \cup ProvidersUrls \cup TimersUrls
  \cup SearchUrls \cup OtherUrls

Init ==
  /\ started \in BOOLEAN
  /\ settings \in [groupRecordings : BOOLEAN, hideDisabledTimers : BOOLEAN]
  /\ caps \in [epg : BOOLEAN, rec : {TRUE}]
  /\ recordings = FixtureRecordings
  /\ timers = FixtureTimers
  /\ channels = FixtureChannels
  /\ groups = FixtureGroups
  /\ clients = <<2, 0>>
  /\ providers = FixtureProviders
  /\ searches = FixtureSearches
  /\ NoCall
  /\ probe = NoProbe

Next ==
  \/ \E url \in RouterUrls : GetDirectory(url)
  \/ DoWorkBegin
  \/ DoWorkFolder
  \/ DoWorkEnd
  \/ Forget
  \/ StartStop

Spec == Init /\ [][Next]_vars

\* the channels specification: the channel group listings over backends
\* whose groups are hidden or deleted and whose channels were added early
\* or late
GroupScenario ==
  /\ \E lg \in {PVR_GROUP_ID_UNNKOWN, 1, 2, 3, 4}, h2 \in BOOLEAN :
       channels = <<Channel(FALSE, 1, FALSE, 5, lg, 3),
                    Channel(FALSE, 1, h2, 0, PVR_GROUP_ID_UNNKOWN, 3)>>
  /\ \E ha, hf, df, hn, dn \in BOOLEAN,
        mf \in {<<1>>, <<2>>, <<2, 1>>}, mn \in {<<1>>, <<1, 2>>} :
       groups = <<[Group(FALSE, "all", PVR_CLIENT_INVALID_UID, TRUE, <<1, 2>>)
                     EXCEPT !.hidden = ha],
                  [Group(FALSE, "fav", 1, FALSE, mf)
                     EXCEPT !.hidden = hf, !.deleted = df],
                  [Group(FALSE, "news", 1, FALSE, mn)
                     EXCEPT !.hidden = hn, !.deleted = dn]>>
  /\ clients = <<2>>

AddedScenario ==
  /\ \E a1 \in 0..3, a2 \in {0, 2}, a3 \in {0, 1}, h2 \in BOOLEAN :
       channels = <<Channel(FALSE, 1, FALSE, 5, PVR_GROUP_ID_UNNKOWN, a1),
                    Channel(FALSE, 2, h2, 0, PVR_GROUP_ID_UNNKOWN, a2),
                    Channel(FALSE, 3, FALSE, 0, PVR_GROUP_ID_UNNKOWN, a3)>>
  /\ groups = <<Group(FALSE, "all", PVR_CLIENT_INVALID_UID, TRUE, <<1, 2, 3>>),
                Group(FALSE, "fav", 1, FALSE, <<3, 1>>)>>
  /\ clients \in [1..2 -> {0, 2}]

ChanUrls ==
  {Url(W_channels, <<"tv", g>>, NoClient, NoClient, v) :
     g \in {"*", ".hidden"}, v \in {NoOption, "lastplayed", "dateadded"}}
  \cup {Url(W_channels, <<"tv", "fav">>, 1, NoClient, v) : v \in {NoOption, "dateadded"}}
  \cup {Url(W_channels, <<"tv">>, NoClient, NoClient, NoOption)}

InitChan ==
  /\ started = TRUE
  /\ settings = [groupRecordings |-> TRUE, hideDisabledTimers |-> FALSE]
  /\ caps = [epg |-> TRUE, rec |-> TRUE]
  /\ recordings = <<>>
  /\ timers = <<>>
  /\ providers = <<>>
  /\ searches = <<>>
  /\ GroupScenario \/ AddedScenario
  /\ NoCall
  /\ probe = NoProbe

NextChan ==
  \/ \E url \in ChanUrls : GetDirectory(url)
  \/ Forget

SpecChan == InitChan /\ [][NextChan]_vars

\* the timers specification: the timers root and rule listings over two
\* timers: a timer or rule of client 1, and a timer that a rule of client 1
\* or 2 may have scheduled
TimerScenario ==
  \E r1, u1, d1, a1, r2, d2 \in BOOLEAN, cp \in {<<1, FALSE, 0>>, <<1, TRUE, 1>>,
                                                 <<2, TRUE, 1>>, <<1, TRUE, 2>>} :
    timers = <<[radio |-> r1, rule |-> u1, disabled |-> d1, anyChannel |-> a1,
                clientId |-> 1, clientIndex |-> 1, hasParent |-> FALSE,
                parentIndex |-> 0],
               [radio |-> r2, rule |-> FALSE, disabled |-> d2, anyChannel |-> FALSE,
                clientId |-> cp[1], clientIndex |-> 2, hasParent |-> cp[2],
                parentIndex |-> cp[3]]>>

TimerUrls ==
  {Url(W_timers, <<k, t>>, NoClient, NoClient, v) :
     k \in KindSegs, t \in {"timers", "rules"}, v \in {NoOption, "hidedisabled"}}
  \cup {Url(W_timers, <<"tv", "rules", NUM, NUM>>, c, 1, v) :
          c \in {1, 2, NoClient}, v \in {NoOption, "hidedisabled"}}
  \cup {Url(W_timers, <<"tv", "timers">>, NoClient, NoClient, "bogus")}

InitTimers ==
  /\ started = TRUE
  /\ settings \in [groupRecordings : {TRUE}, hideDisabledTimers : BOOLEAN]
  /\ caps = [epg |-> TRUE, rec |-> TRUE]
  /\ recordings = <<>>
  /\ TimerScenario
  /\ channels = <<>>
  /\ groups = <<>>
  /\ clients = <<>>
  /\ providers = <<>>
  /\ searches = <<>>
  /\ NoCall
  /\ probe = NoProbe

NextTimers ==
  \/ \E url \in TimerUrls : GetDirectory(url)
  \/ Forget

SpecTimers == InitTimers /\ [][NextTimers]_vars

\* the providers specification: the providers listings over backends with up
\* to two providers, one channel and one recording of either kind
ProviderUniverse == {<<1, 1>>, <<1, 2>>, <<2, 1>>}

Provider(clientId, uid) == [clientId |-> clientId, uid |-> uid]

ProviderScenario ==
  /\ providers \in {<<>>,
                     <<Provider(1, 1)>>,
                     <<Provider(1, 1), Provider(1, 2)>>,
                     <<Provider(1, 1), Provider(2, 1)>>,
                     <<Provider(1, 2), Provider(2, 1)>>}
  /\ \E r \in BOOLEAN, p \in ProviderUniverse, present \in BOOLEAN :
       /\ channels = IF present
                       THEN <<[Channel(r, p[1], FALSE, 0, PVR_GROUP_ID_UNNKOWN, 1)
                                 EXCEPT !.providerUid = p[2]]>>
                       ELSE <<>>
       /\ groups = <<Group(FALSE, "all", PVR_CLIENT_INVALID_UID, TRUE,
                           IF present /\ ~r THEN <<1>> ELSE <<>>),
                     Group(TRUE, "all", PVR_CLIENT_INVALID_UID, TRUE,
                           IF present /\ r THEN <<1>> ELSE <<>>)>>
  /\ \E r \in BOOLEAN, p \in ProviderUniverse, present \in BOOLEAN :
       recordings = IF present
                      THEN <<[Rec(<<>>) EXCEPT !.radio = r, !.clientId = p[1],
                                               !.providerUid = p[2]]>>
                      ELSE <<>>

ProviderUrls ==
  {Url(W_providers, <<k>>, NoClient, NoProvider, NoOption) : k \in KindSegs}
  \cup {Url(W_providers, segs, 1, 1, NoOption) :
          segs \in {<<"tv", NUM>>, <<"tv", NUM, "channels">>,
                    <<"tv", NUM, "recordings">>}}

InitProviders ==
  /\ started = TRUE
  /\ settings = [groupRecordings |-> TRUE, hideDisabledTimers |-> FALSE]
  /\ caps = [epg |-> TRUE, rec |-> TRUE]
  /\ ProviderScenario
  /\ timers = <<>>
  /\ clients = <<>>
  /\ searches = <<>>
  /\ NoCall
  /\ probe = NoProbe

NextProviders ==
  \/ \E url \in ProviderUrls : GetDirectory(url)
  \/ Forget

SpecProviders == InitProviders /\ [][NextProviders]_vars

\* the resolve specification: items whose path and dyn path are of every
\* class, naming an entity the backend has (1) or has not (9)
ResolveUrls ==
  {PluginUrl} \cup {PvrUrl(k, id) : k \in {"channel", "recording", "guide", "other"},
                                    id \in {1, 9}}

ResolveItems ==
  {PlayItem(p, d, "none") : p \in ResolveUrls, d \in ResolveUrls \cup {EmptyUrl}}

InitResolve ==
  /\ started = TRUE
  /\ settings = [groupRecordings |-> TRUE, hideDisabledTimers |-> FALSE]
  /\ caps = [epg |-> TRUE, rec |-> TRUE]
  /\ recordings = FixtureRecordings
  /\ timers = <<>>
  /\ channels = FixtureChannels
  /\ groups = FixtureGroups
  /\ clients = <<>>
  /\ providers = <<>>
  /\ searches = <<>>
  /\ NoCall
  /\ probe = NoProbe

NextResolve ==
  \/ \E item \in ResolveItems, epgTags \in {{}, {1}} : ResolveCall(item, epgTags)
  \/ ResolveCheck
  \/ ResolveReplace
  \/ \E answer \in BOOLEAN : OnPreparePlayback(answer)
  \/ ResolveReturn

SpecResolve == InitResolve /\ [][NextResolve]_vars

\* the refresh specification: the grouped listing and its job over
\* recordings whose cached resume point agrees with the backend's
AgreeingRecUniverse ==
  {[Rec(d) EXCEPT !.local = p, !.backend = p, !.clientId = c] :
     d \in {D_a, D_a_b}, p \in BOOLEAN, c \in {1, 2}}

RefreshUrls ==
  {RecUrl("tv", "active", <<>>, "grouped", c, NoProvider) : c \in {NoClient, 1}}

InitRefresh ==
  /\ started = TRUE
  /\ settings = [groupRecordings |-> TRUE, hideDisabledTimers |-> FALSE]
  /\ recordings \in SeqsUpTo(AgreeingRecUniverse, MaxRecs)
  /\ EmptyBackend
  /\ NoCall
  /\ probe = NoProbe

NextRefresh ==
  \/ \E url \in RefreshUrls : GetDirectory(url)
  \/ DoWorkBegin
  \/ DoWorkFolder
  \/ DoWorkEnd
  \/ Forget

SpecRefresh == InitRefresh /\ [][NextRefresh]_vars

\* the directory-info specification: items of the recordings root, of
\* directory 'a' and of an invalid path, with an invalid (0) or a valid
\* date-time, over recordings of two recording times
InfoRecUniverse ==
  {[Rec(d) EXCEPT !.time = t, !.playCount = p] :
     d \in {<<>>, D_a}, t \in {1, 2}, p \in {0, 1}}

InfoUrls ==
  {RecUrl("tv", "active", d, NoOption, NoClient, NoProvider) : d \in {<<>>, D_a}}
  \cup {MkUrl(W_recordings, <<"tv">>, <<>>, NoClient, NoClient, NoOption,
              NoClient, NoProvider)}

InfoItem(url, dateTime) ==
  [SetProperty(NewItem("folder", CPVRRecordingsPath(url), TRUE), "totalepisodes", 5)
     EXCEPT !.dateTime = dateTime]

InitInfo ==
  /\ started = TRUE
  /\ settings \in [groupRecordings : BOOLEAN, hideDisabledTimers : {FALSE}]
  /\ recordings \in SeqsUpTo(InfoRecUniverse, MaxRecs)
  /\ EmptyBackend
  /\ NoCall
  /\ probe = NoProbe

NextInfo ==
  \/ \E url \in InfoUrls, dateTime \in {0, 1, 3} :
       GetRecordingsDirectoryInfo(url, InfoItem(url, dateTime))
  \/ DoWorkBegin
  \/ DoWorkFolder
  \/ DoWorkEnd
  \/ InfoReturn

SpecInfo == InitInfo /\ [][NextInfo]_vars

(***************************************************************************)
(* Properties                                                              *)
(***************************************************************************)
NamespaceWords == {W_tv, W_radio, W_recordings, W_channels, W_providers, W_timers}

\* a path of a recognized namespace: the empty path, a first segment that is
\* exactly a namespace's name, or a valid EPG search path
RecognizedPath(url) ==
  \/ FileNameEmpty(url)
  \/ url.seg1 \in NamespaceWords
  \/ CPVREpgSearchPath(url).valid

\* C1: while the PVR manager is not started, GetDirectory on a path of a
\* recognized namespace returns success, adds no entry and runs no builder
\* and queues no job, whatever arguments the path carries.
C1_NotStartedEmptySuccess ==
  (call.active /\ ~call.started /\ RecognizedPath(call.url))
    => /\ call.ret
       /\ results = <<>>
       /\ items = <<>>
       /\ call.builder = "none"
       /\ job = NoJob

\* C1: a recordings call with an unsupported view returned success while the
\* PVR manager was not started
C1_Witness ==
  /\ call.active
  /\ ~call.started
  /\ call.url.seg1 = W_recordings
  /\ call.url.view = "bogus"
  /\ call.ret
  /\ results = <<>>

\* C2: started, a recordings listing with a view that is neither 'grouped'
\* nor 'flat' fails with no entry and no job, whatever its path; a timers
\* listing with a view that is not 'hidedisabled' fails with no entry.
C2_UnsupportedViewFails ==
  (/\ call.active
   /\ call.started
   /\ \/ /\ RoutedNamespace(call.url) = "recordings"
         /\ call.url.view \notin {NoOption, "grouped", "flat"}
      \/ /\ RoutedNamespace(call.url) = "timers"
         /\ call.url.view \notin {NoOption, "hidedisabled"})
    => /\ ~call.ret
       /\ results = <<>>
       /\ job = NoJob

\* C2: a started call on a timer rule's sub-directory with an unsupported
\* view has failed
C2_Witness ==
  /\ call.active
  /\ call.started
  /\ IsTimerRule(CPVRTimersPath(call.url))
  /\ call.url.view = "bogus"
  /\ ~call.ret
  /\ results = <<>>

\* C3: started, a channel group listing with a view that is neither
\* 'lastplayed' nor 'dateadded' fails and produces no entries.
C3_UnsupportedChannelViewFails ==
  (/\ call.active
   /\ call.started
   /\ RoutedNamespace(call.url) = "channels"
   /\ IsChannelGroup(CPVRChannelsPath(call.url))
   /\ call.url.view \notin {NoOption, "lastplayed", "dateadded"})
    => /\ ~call.ret
       /\ results = <<>>

\* C4: GetDirectory fails with no entries, started or not, on every path
\* that is not the empty path, whose first segment is not exactly a
\* namespace's name and that is no valid EPG search path.
C4_UnmatchedPathFails ==
  (call.active /\ ~RecognizedPath(call.url))
    => /\ ~call.ret
       /\ results = <<>>

\* the call listed an active recordings directory in grouped mode
GroupedActiveListing ==
  /\ call.active
  /\ call.started
  /\ call.pre = 0
  /\ call.ret
  /\ CPVRRecordingsPath(call.url).valid
  /\ ~CPVRRecordingsPath(call.url).flag
  /\ GroupedView(call.url.view, settings.groupRecordings)

\* the recordings a grouped listing of the call's url looks at: not deleted,
\* of the path's kind, passing the client and provider filter
Eligible ==
  {k \in 1..Len(recordings) :
     /\ ~recordings[k].deleted
     /\ recordings[k].radio = CPVRRecordingsPath(call.url).radio
     /\ (call.url.clientId # PVR_CLIENT_INVALID_UID
           => /\ recordings[k].clientId = call.url.clientId
              /\ (call.url.providerId # PVR_PROVIDER_INVALID_UID
                    => recordings[k].providerUid = call.url.providerId))}

\* the immediate sub-directory segment of recording k below the call's path
SegmentOf(k) ==
  GetUnescapedSubDirectoryPath(CPVRRecordingsPath(call.url), recordings[k].dir)

\* the directory dir lies in the subtree of segment seg below directory base:
\* it is base/seg or begins with base/seg/, base compared without case
InSubtree(dir, base, seg) ==
  LET t == TrimSlashes(dir)
      b == IF TrimSlashes(base) = <<>> THEN <<>> ELSE TrimSlashes(base) \o <<SLASH>>
      n == Len(b) + Len(seg)
  IN /\ seg # <<>>
     /\ Len(t) >= n
     /\ \A i \in 1..Len(b) : ToLowerChar(t[i]) = ToLowerChar(b[i])
     /\ \A i \in 1..Len(seg) : t[Len(b) + i] = seg[i]
     /\ Len(t) > n => t[n + 1] = SLASH

\* the eligible recordings in the subtree of the folder labelled seg
Counted(seg) ==
  {k \in Eligible :
     InSubtree(recordings[k].dir, CPVRRecordingsPath(call.url).dir, seg)}

\* the positions of the synthetic folders in the caller's listing
FolderEntries == {i \in 1..Len(results) : items[results[i]].kind = "folder"}

\* C5: a grouped listing of an active recordings directory holds exactly one
\* synthetic folder per distinct immediate sub-directory segment of the
\* eligible recordings, in the order of the first recording of each segment,
\* and a folder's totalepisodes is the number of eligible recordings in its
\* subtree.
C5_OneFolderPerSegment ==
  GroupedActiveListing
    => /\ \A k \in Eligible :
            SegmentOf(k) # <<>>
              => Cardinality({i \in FolderEntries :
                                items[results[i]].label = SegmentOf(k)}) = 1
       /\ \A i \in FolderEntries :
            /\ \E k \in Eligible : SegmentOf(k) = items[results[i]].label
            /\ items[results[i]].path =
                 AppendSegment(CPVRRecordingsPath(call.url), items[results[i]].label)
            /\ GetProperty(items[results[i]], "totalepisodes", -1)
                 = Cardinality(Counted(items[results[i]].label))
       /\ \A i, j \in FolderEntries :
            i < j => First(Counted(items[results[i]].label))
                       < First(Counted(items[results[j]].label))

\* C5: the only folder of a listing was created by one recording and reused
\* by a later one that lies deeper in its subtree
C5_Witness ==
  /\ GroupedActiveListing
  /\ Cardinality(FolderEntries) = 1
  /\ \E i \in FolderEntries :
       /\ GetProperty(items[results[i]], "totalepisodes", -1) = 2
       /\ Counted(items[results[i]].label) = {1, 2}
       /\ recordings[1].dir # recordings[2].dir

\* C6: every synthetic folder of a grouped listing has the overlay
\* 'unwatched' exactly when a recording counted in it has play count 0,
\* which is when its unwatchedepisodes is above 0, and 'watched' otherwise.
C6_FolderOverlay ==
  GroupedActiveListing
    => \A i \in FolderEntries :
         /\ items[results[i]].overlay \in {"watched", "unwatched"}
         /\ items[results[i]].overlay = "unwatched"
              <=> \E k \in Counted(items[results[i]].label) :
                    recordings[k].playCount = 0
         /\ items[results[i]].overlay = "unwatched"
              <=> GetProperty(items[results[i]], "unwatchedepisodes", 0) > 0

\* C6: a folder whose first counted recording is watched and whose second is
\* not has the unwatched overlay
C6_Witness ==
  /\ GroupedActiveListing
  /\ \E i \in FolderEntries :
       /\ items[results[i]].overlay = "unwatched"
       /\ GetProperty(items[results[i]], "watchedepisodes", 0) = 1
       /\ GetProperty(items[results[i]], "unwatchedepisodes", 0) = 1
       /\ recordings[First(Counted(items[results[i]].label))].playCount > 0

\* the characters of s between its leading and its trailing slashes
Trimmed(s) ==
  LET keep == {i \in 1..Len(s) : s[i] # SLASH}
  IN IF keep = {}
       THEN <<>>
       ELSE SubSeq(s, CHOOSE i \in keep : \A j \in keep : i <= j,
                      CHOOSE i \in keep : \A j \in keep : i >= j)

\* a and b are the same string but for the case of their letters
SameNoCase(a, b) ==
  /\ Len(a) = Len(b)
  /\ \A i \in 1..Len(a) : ToLowerChar(a[i]) = ToLowerChar(b[i])

\* a begins with b, but for the case of the letters
BeginsNoCase(a, b) ==
  /\ Len(a) >= Len(b)
  /\ \A i \in 1..Len(b) : ToLowerChar(a[i]) = ToLowerChar(b[i])

\* C7: IsDirectoryMember returns, on the arguments trimmed of their leading
\* and trailing slashes, their equality without case in grouped mode and
\* whether the entry directory begins with the directory, without case, in
\* flat mode; a grouped match is a flat match; 'a/b/c' in 'A/B' is no
\* grouped match but a flat one, and 'a/b' in 'A/B' is both.
C7_DirectoryMember ==
  probe.op = "done"
    => /\ probe.out = IF probe.grouped
                        THEN SameNoCase(Trimmed(probe.dir), Trimmed(probe.entry))
                        ELSE BeginsNoCase(Trimmed(probe.entry), Trimmed(probe.dir))
       /\ IsDirectoryMember(probe.dir, probe.entry, TRUE)
            => IsDirectoryMember(probe.dir, probe.entry, FALSE)
       /\ (probe.dir = D_A_B /\ probe.entry = D_a_b_c) => (probe.out = ~probe.grouped)
       /\ (probe.dir = D_A_B /\ probe.entry = D_a_b) => probe.out

\* C7: the flat test of 'a/b/c' in 'A/B' has returned true
C7_Witness ==
  /\ probe.op = "done"
  /\ probe.dir = D_A_B
  /\ probe.entry = D_a_b_c
  /\ ~probe.grouped
  /\ probe.out

\* the call is a recordings listing on an empty list
RecordingsListing ==
  /\ call.active
  /\ call.started
  /\ call.pre = 0
  /\ RoutedNamespace(call.url) = "recordings"

\* C8: a recordings listing on an empty list queues a job exactly when it
\* produced a synthetic folder, hence none in flat mode, in the deleted view
\* or for an invalid path, and the job's working copy is the folders only:
\* the listing as it was before the leaf recordings were appended.
C8_JobIffFolders ==
  RecordingsListing
    => /\ job.pc \in {"none", "queued"}
       /\ job.pc = "queued" <=> FolderEntries # {}
       /\ job.pc = "none" => job = NoJob
       /\ (\/ ~GroupedView(call.url.view, settings.groupRecordings)
           \/ CPVRRecordingsPath(call.url).flag
           \/ ~CPVRRecordingsPath(call.url).valid) => job = NoJob
       /\ Len(job.folders) = Cardinality(FolderEntries)
       /\ \A i \in 1..Len(job.folders) :
            /\ job.folders[i] \notin {results[j] : j \in 1..Len(results)}
            /\ items[job.folders[i]].kind = "folder"
            /\ items[job.folders[i]] = items[results[i]]
       /\ job.pc = "queued" => job.recs = recordings

\* C8: a job is queued for a listing that holds a folder and a leaf recording
C8_Witness ==
  /\ RecordingsListing
  /\ job.pc = "queued"
  /\ Len(job.folders) = 1
  /\ Len(results) = 2
  /\ items[results[2]].kind = "recording"

\* the i-th folder of the job's working copy has a valid recordings path
ValidFolder(i) ==
  /\ items[job.folders[i]].path.ns = "recordings"
  /\ items[job.folders[i]].path.valid

\* the in-progress count DoWork computes for the i-th folder of the job: the
\* job's recordings of the folder's deleted flag and kind that lie in exactly
\* the folder's directory and that the backend reports part way through
Recomputed(i) ==
  Cardinality({k \in 1..Len(job.recs) :
    /\ job.recs[k].deleted = items[job.folders[i]].path.flag
    /\ job.recs[k].radio = items[job.folders[i]].path.radio
    /\ SameNoCase(Trimmed(items[job.folders[i]].path.dir), Trimmed(job.recs[k].dir))
    /\ job.recs[k].backend})

\* the count the i-th folder held when the job was constructed: the job's
\* copies are taken of the first entries of the caller's listing
StoredBefore(i) == GetProperty(items[i], "inprogressepisodes", 0)

\* the number of notifications sent for the item of identity id
Notifications(id) == Cardinality({n \in 1..Len(sent) : sent[n] = id})

\* the outcome of a finished job
JobOutcome ==
  /\ job.idx \in {0, Len(job.folders) + 1}
  /\ (job.recs = <<>> \/ job.folders = <<>>) => sent = <<>>
  /\ \A n \in 1..Len(sent) : \E i \in 1..Len(job.folders) : sent[n] = job.folders[i]
  /\ \A i \in 1..Len(job.folders) :
       IF ValidFolder(i) /\ job.recs # <<>>
         THEN /\ GetProperty(items[job.folders[i]], "inprogressepisodes", 0)
                   = Recomputed(i)
              /\ Notifications(job.folders[i])
                   = IF Recomputed(i) # StoredBefore(i) THEN 1 ELSE 0
         ELSE /\ Notifications(job.folders[i]) = 0
              /\ GetProperty(items[job.folders[i]], "inprogressepisodes", 0)
                   = StoredBefore(i)

\* C9: a queued job runs to completion; it visits the folders of its working
\* copy one after the other, each once; when it is done every folder with a
\* valid recordings path holds the recomputed count and was notified once if
\* that count differs from the count it held, and not at all otherwise, and
\* nothing was notified when the recordings or the folders are empty.
C9_JobRunsToCompletion ==
  /\ (job.pc = "queued") ~> (job.pc = "done")
  /\ [](job.pc = "done" => JobOutcome)
  /\ [][(job.pc = "running" /\ job'.pc = "running" /\ job' # job)
          => job'.idx = job.idx + 1]_vars
  /\ [][sent' # sent
          => \/ sent' = <<>>
             \/ /\ job.pc = "running"
                /\ sent' = Append(sent, job.folders[job.idx])]_vars

\* C9: a finished job that visited two folders and notified one of them
C9_Witness ==
  /\ job.pc = "done"
  /\ Len(job.folders) = 2
  /\ ValidFolder(1)
  /\ ValidFolder(2)
  /\ Len(sent) = 1

\* C10: no step of the job changes an entry of the caller's listing, however
\* the job's steps interleave with the caller's edits and its release of
\* the listing; the job's folders are none of the caller's entries.
C10_JobLeavesListingAlone ==
  /\ [](\A i \in 1..Len(job.folders), j \in 1..Len(results) :
          job.folders[i] # results[j])
  /\ [][(job.pc \in {"queued", "running"} /\ job' # job)
          => \A j \in 1..Len(results) : items'[results[j]] = items[results[j]]]_vars

\* C10: the job has updated its copy of a folder while the caller's entry,
\* edited by the caller in between, keeps the count it was listed with
C10_Witness ==
  /\ job.pc = "done"
  /\ sent # <<>>
  /\ results # <<>>
  /\ GetProperty(items[results[1]], "edited", FALSE)
  /\ items[results[1]].kind = "folder"
  /\ sent[1] = job.folders[1]
  /\ GetProperty(items[results[1]], "inprogressepisodes", 0)
       # GetProperty(items[job.folders[1]], "inprogressepisodes", 0)

\* a successful listing of 'all channels across all groups' without a view
AllChannelsListing ==
  /\ call.active
  /\ call.ret
  /\ call.url.seg1 = W_channels
  /\ call.url.segs = <<"tv", "*">>
  /\ ~HasOption(call.url)

\* the tv 'all channels' group
TheAllGroup == CHOOSE g \in 1..Len(groups) : groups[g].all /\ ~groups[g].radio

Holds(g, c) == \E i \in 1..Len(groups[g].members) : groups[g].members[i] = c

\* the channel's last-watched group exists, is shown and holds the channel
LastWatchedUsable(c) ==
  /\ channels[c].lastGroup \in 1..Len(groups)
  /\ ~groups[channels[c].lastGroup].hidden
  /\ ~groups[channels[c].lastGroup].deleted
  /\ Holds(channels[c].lastGroup, c)

\* the shown groups of the channel's kind that hold the channel
ShownGroupsOf(c) ==
  {g \in 1..Len(groups) : /\ groups[g].radio = channels[c].radio
                           /\ ~groups[g].hidden
                           /\ ~groups[g].deleted
                           /\ Holds(g, c)}

\* the ladder: the <<group, channel>> entries the visible member of channel
\* c of the 'all channels' group may yield (one or none)
LadderChoice(c) ==
  IF LastWatchedUsable(c)
    THEN {<<channels[c].lastGroup, c>>}
    ELSE IF groups[TheAllGroup].hidden
           THEN {<<g, c>> : g \in {h \in ShownGroupsOf(c) :
                                     \A k \in ShownGroupsOf(c) : h <= k}}
           ELSE {<<TheAllGroup, c>>}

\* the channels of the visible members of the 'all channels' group, in order
VisibleOfAll ==
  SelectSeq(groups[TheAllGroup].members, LAMBDA c : ~channels[c].hidden)

EntryOf(i) == <<items[results[i]].path.id1, items[results[i]].path.id2>>

\* C11: in the 'all channels across all groups' listing every visible member
\* of the 'all channels' group yields, in order, the one entry the ladder
\* chooses for it (its last-watched group's member, else with a hidden 'all
\* channels' group the first shown group's member or nothing, else itself),
\* and no entry comes from a hidden or deleted group
C11_AllChannelsLadder ==
  AllChannelsListing =>
    LET kept == SelectSeq(VisibleOfAll, LAMBDA c : LadderChoice(c) # {})
    IN /\ Len(results) = Len(kept)
       /\ \A i \in 1..Len(results) :
            /\ EntryOf(i) \in LadderChoice(kept[i])
            /\ ~groups[EntryOf(i)[1]].hidden
            /\ ~groups[EntryOf(i)[1]].deleted
            /\ groups[TheAllGroup].hidden => EntryOf(i)[1] # TheAllGroup

\* the 'all channels' group is hidden, channel 1 was last watched in a deleted
\* group and is listed as the member of the first shown group, and visible
\* channel 2, which no shown group holds, has no entry
C11_Witness ==
  /\ AllChannelsListing
  /\ groups[TheAllGroup].hidden
  /\ channels[1].lastGroup = 3
  /\ groups[3].deleted
  /\ Holds(3, 1)
  /\ ~channels[2].hidden
  /\ ShownGroupsOf(2) = {}
  /\ Len(results) = 1
  /\ EntryOf(1) = <<2, 1>>

\* a successful timers listing of the given number of path segments
TimersListing(n) ==
  /\ call.active
  /\ call.ret
  /\ call.started
  /\ call.url.seg1 = W_timers
  /\ Len(call.url.segs) = n

\* hide-disabled is in effect for the call: by its view or by configuration
HideDisabledInEffect ==
  IF HasOption(call.url) THEN call.url.view = "hidedisabled"
                         ELSE settings.hideDisabledTimers

\* the timers the listing holds, and whether it holds each at most once
ListedTimers == {items[results[i]].ref : i \in 1..Len(results)}
ListedOnce == Cardinality(ListedTimers) = Len(results)

\* every entry's path carries its timer's client id and client index
PathsEncodeTimers ==
  \A i \in 1..Len(results) :
    /\ items[results[i]].kind = "timer"
    /\ items[results[i]].path.id1 = timers[items[results[i]].ref].clientId
    /\ items[results[i]].path.id2 = timers[items[results[i]].ref].clientIndex

\* C12: the timers root listing holds exactly the timers whose rule flag is
\* the path's, that are not disabled when hide-disabled is in effect, and
\* whose radio flag is the path's or, in the rules view only, that target any
\* channel; each entry's path carries the timer's client id and client index
C12_TimersRootListing ==
  TimersListing(2) =>
    /\ ListedOnce
    /\ PathsEncodeTimers
    /\ ListedTimers =
         {k \in 1..Len(timers) :
            /\ timers[k].rule = (call.url.segs[2] = "rules")
            /\ HideDisabledInEffect => ~timers[k].disabled
            /\ \/ timers[k].radio = (call.url.segs[1] = "radio")
               \/ (call.url.segs[2] = "rules" /\ timers[k].anyChannel)}

\* the tv timer rules with hide-disabled from the configuration: a radio rule
\* that targets any channel is listed
C12_Witness ==
  /\ TimersListing(2)
  /\ call.url.segs = <<"tv", "rules">>
  /\ ~HasOption(call.url)
  /\ settings.hideDisabledTimers
  /\ timers[1].radio
  /\ timers[1].anyChannel
  /\ timers[2].disabled
  /\ ListedTimers = {1}

\* C13: the listing of a rule's timers holds exactly the timers that have a
\* parent, whose parent index is the path's rule id, whose radio flag is the
\* path's, whose client is the path's when the path names one, and that are
\* not disabled when hide-disabled is in effect
C13_TimersSubListing ==
  TimersListing(4) =>
    /\ ListedOnce
    /\ PathsEncodeTimers
    /\ ListedTimers =
         {k \in 1..Len(timers) :
            /\ timers[k].hasParent
            /\ timers[k].parentIndex = call.url.n2
            /\ timers[k].radio = (call.url.segs[1] = "radio")
            /\ call.url.n1 # PVR_CLIENT_INVALID_UID =>
                 timers[k].clientId = call.url.n1
            /\ HideDisabledInEffect => ~timers[k].disabled}

\* rule 1 of client 1 is listed while the only timer with parent 1 is of
\* client 2: nothing is listed
C13_Witness ==
  /\ TimersListing(4)
  /\ call.url.n1 = 1
  /\ call.url.n2 = 1
  /\ timers[2].hasParent
  /\ timers[2].parentIndex = 1
  /\ timers[2].clientId = 2
  /\ ~timers[2].radio
  /\ ~timers[2].disabled
  /\ results = <<>>

\* a successful listing of a channel group
ChannelGroupListed ==
  /\ call.active
  /\ call.ret
  /\ call.started
  /\ call.url.seg1 = W_channels
  /\ Len(call.url.segs) = 2

DateAddedView == HasOption(call.url) /\ call.url.view = "dateadded"

ListedChannels == {items[results[i]].ref : i \in 1..Len(results)}

\* the channel's client is known and recorded when its first channels came
FirstChannelsAddedKnown(c) ==
  /\ channels[c].clientId \in DOMAIN clients
  /\ clients[channels[c].clientId] # 0

\* C14: in the 'dateadded' view a channel is listed only with a valid added
\* time that is strictly later than its client's valid 'first channels added'
\* time; every entry of the view is 'hideable' and no entry of another view is
C14_DateAddedView ==
  ChannelGroupListed =>
    \A i \in 1..Len(results) :
      /\ items[results[i]].kind = "channel"
      /\ GetProperty(items[results[i]], "hideable", FALSE) = DateAddedView
      /\ DateAddedView =>
           /\ channels[items[results[i]].ref].added # 0
           /\ FirstChannelsAddedKnown(items[results[i]].ref) =>
                channels[items[results[i]].ref].added >
                  clients[channels[items[results[i]].ref].clientId]

\* the view lists channel 1, added after its client's first channels, and
\* channel 3, whose client is unknown, but not channel 2, added at exactly
\* its client's first-channels time
C14_Witness ==
  /\ ChannelGroupListed
  /\ DateAddedView
  /\ call.url.segs = <<"tv", "*">>
  /\ Len(channels) = 3
  /\ channels[1].added = 3
  /\ clients[1] = 2
  /\ ~channels[2].hidden
  /\ channels[2].added = 2
  /\ clients[2] = 2
  /\ channels[3].added = 1
  /\ ListedChannels = {1, 3}
  /\ GetProperty(items[results[1]], "hideable", FALSE)

\* a call on the providers root of a kind, with the PVR manager started
ProvidersRootCall ==
  /\ call.active
  /\ call.started
  /\ call.url.seg1 = W_providers
  /\ Len(call.url.segs) = 1
  /\ call.url.segs[1] \in KindSegs

CallIsRadio == call.url.segs[1] = "radio"

\* provider k serves a channel, or a recording, of the call's kind
ServesChannel(k) ==
  \E c \in 1..Len(channels) :
    /\ channels[c].radio = CallIsRadio
    /\ channels[c].clientId = providers[k].clientId
    /\ channels[c].providerUid = providers[k].uid

ServesRecording(k) ==
  \E i \in 1..Len(recordings) :
    /\ recordings[i].radio = CallIsRadio
    /\ recordings[i].clientId = providers[k].clientId
    /\ recordings[i].providerUid = providers[k].uid

ListedProviders == {items[results[i]].ref : i \in 1..Len(results)}

\* C15: the providers root of a kind succeeds and holds a folder for exactly
\* the providers that serve a channel or a recording of that kind
C15_ProvidersRootListing ==
  ProvidersRootCall =>
    /\ call.ret
    /\ Cardinality(ListedProviders) = Len(results)
    /\ \A i \in 1..Len(results) :
         /\ items[results[i]].kind = "provider"
         /\ items[results[i]].folder
    /\ ListedProviders =
         {k \in 1..Len(providers) : ServesChannel(k) \/ ServesRecording(k)}

\* of two providers the tv root lists the one with only a tv recording and
\* omits the one with only a radio channel
C15_Witness ==
  /\ ProvidersRootCall
  /\ ~CallIsRadio
  /\ Len(providers) = 2
  /\ ~ServesChannel(1)
  /\ ServesRecording(1)
  /\ Len(channels) = 1
  /\ channels[1].radio
  /\ channels[1].clientId = providers[2].clientId
  /\ channels[1].providerUid = providers[2].uid
  /\ ListedProviders = {1}

Resolving == probe.op = "resolve"
Resolved == Resolving /\ probe.pc = "done"

\* neither the given item's path nor its dyn path is a PVR path
NeitherIsPVR == ~probe.given.path.pvr /\ ~probe.given.dynPath.pvr

\* the given item's dyn path names an entity the backend has
DynPathMatches ==
  \/ /\ probe.given.dynPath.kind = "channel"
     /\ \E g \in 1..Len(groups) : Holds(g, probe.given.dynPath.id)
  \/ /\ probe.given.dynPath.kind = "recording"
     /\ probe.given.dynPath.id \in 1..Len(recordings)
  \/ /\ probe.given.dynPath.kind = "guide"
     /\ probe.given.dynPath.id \in probe.epgTags

\* the item playback preparation is to be handed: the given item, or the
\* entity of its dyn path when its path is no PVR path and the entity exists
ItemToPrepare ==
  IF ~probe.given.path.pvr /\ probe.given.dynPath.pvr /\ DynPathMatches
    THEN [path |-> probe.given.dynPath, dynPath |-> EmptyUrl,
          tag |-> probe.given.dynPath.kind]
    ELSE probe.given

ResolveOutcome ==
  /\ Resolving => Len(probe.prepared) <= 1
  /\ Resolved =>
       /\ (probe.prepared = <<>>) <=> NeitherIsPVR
       /\ probe.prepared = <<>> => ~probe.ret
       /\ probe.prepared # <<>> =>
            /\ probe.prepared = <<ItemToPrepare>>
            /\ probe.item = ItemToPrepare
            /\ probe.ret = probe.answer

\* once the item was handed to playback preparation it is not resolved again
\* and not handed over again
PreparedLast ==
  (Resolving /\ probe.prepared # <<>> /\ probe'.op = "resolve") =>
    /\ probe'.item = probe.item
    /\ probe'.prepared = probe.prepared

\* C16: Resolve fails without preparing playback exactly when neither the
\* path nor the dyn path is a PVR path; otherwise playback preparation is
\* invoked once, after the re-resolution, with the re-resolved item (the
\* unchanged item when the dyn path matches no entity), and its answer is
\* returned
C16_ResolveThenPrepare == []ResolveOutcome /\ [][PreparedLast]_vars

\* an item with a plugin path and the dyn path of a recording the backend
\* does not have was handed unchanged to playback preparation, which
\* answered true
C16_Witness ==
  /\ Resolved
  /\ probe.given.path = PluginUrl
  /\ probe.given.dynPath = PvrUrl("recording", 9)
  /\ probe.prepared = <<probe.given>>
  /\ probe.ret

\* a successful listing of the deleted-recordings root
DeletedRootListing ==
  /\ call.active
  /\ call.ret
  /\ call.started
  /\ call.url.seg1 = W_recordings
  /\ Len(call.url.segs) = 2
  /\ call.url.segs[2] = "deleted"
  /\ call.url.dir = <<>>

\* the recording passes the call's client and provider selection
PassesFilter(k) ==
  call.url.clientId # PVR_CLIENT_INVALID_UID =>
    /\ recordings[k].clientId = call.url.clientId
    /\ call.url.providerId # PVR_PROVIDER_INVALID_UID =>
         recordings[k].providerUid = call.url.providerId

ListedLeaves ==
  {items[results[i]].ref : i \in {j \in 1..Len(results) : ~items[results[j]].folder}}

\* C17: the listing of the deleted-recordings root holds no synthetic folder
\* and holds as a leaf every deleted recording of the path's kind that passes
\* the client/provider filter, whatever its directory, grouped or not
C17_DeletedViewFlattened ==
  DeletedRootListing =>
    /\ \A i \in 1..Len(results) : ~items[results[i]].folder
    /\ \A k \in 1..Len(recordings) :
         (/\ recordings[k].deleted
          /\ recordings[k].radio = (call.url.segs[1] = "radio")
          /\ PassesFilter(k)) => k \in ListedLeaves

\* nothing changed since the listing, and every recording's cached resume
\* point agrees with the backend's
RecordingsSettled ==
  /\ job.recs = recordings
  /\ \A k \in 1..Len(recordings) : recordings[k].local = recordings[k].backend

\* C18: when no recording changed since the grouped listing and the cached
\* resume points agree with the backend's, the refresh job changes no
\* folder's inprogressepisodes and sends no notification, whatever the
\* directories of the folders' recordings
C18_JobAgreesWithListing ==
  (job.pc \in {"running", "done"} /\ RecordingsSettled) =>
    /\ sent = <<>>
    /\ \A i \in 1..Len(job.folders) :
         GetProperty(items[job.folders[i]], "inprogressepisodes", 0)
           = StoredBefore(i)

\* a successful flat listing of an active recordings directory
FlatActiveListing ==
  /\ call.active
  /\ call.started
  /\ call.pre = 0
  /\ call.ret
  /\ CPVRRecordingsPath(call.url).valid
  /\ ~CPVRRecordingsPath(call.url).flag
  /\ ~GroupedView(call.url.view, settings.groupRecordings)

\* the grouped listing of the same directory over the same recordings
GroupedOfSame ==
  GetRecordingsDirectory([call.url EXCEPT !.view = "grouped"], recordings,
                         settings.groupRecordings, <<>>).list

\* the recordings a listing represents: one per leaf, totalepisodes per folder
RECURSIVE Represented(_)
Represented(list) ==
  IF list = <<>>
    THEN 0
    ELSE (IF Head(list).folder THEN GetProperty(Head(list), "totalepisodes", 0)
                               ELSE 1)
         + Represented(Tail(list))

\* the directory is the listed directory or lies below it
AtOrBelow(dir, listed) ==
  \/ Trimmed(listed) = <<>>
  \/ SameNoCase(Trimmed(dir), Trimmed(listed))
  \/ BeginsNoCase(Trimmed(dir), Trimmed(listed) \o <<SLASH>>)

\* C19: the flat listing of an active recordings directory holds as many
\* leaves as the grouped listing of that directory represents by its leaves
\* and its folders' totalepisodes, and no recording of a sibling directory
\* whose name merely begins with the directory's name
C19_FlatMatchesGrouped ==
  FlatActiveListing =>
    /\ \A i \in 1..Len(results) : ~items[results[i]].folder
    /\ Len(results) = Represented(GroupedOfSame)
    /\ \A i \in 1..Len(results) :
         AtOrBelow(recordings[items[results[i]].ref].dir, call.url.dir)

\* GetRecordingsDirectoryInfo has returned
InfoDone == probe.op = "info"

\* the recordings its listing held
InfoListed ==
  {probe.listed[i].ref :
     i \in {j \in 1..Len(probe.listed) : probe.listed[j].kind = "recording"}}

\* C20: after a successful GetRecordingsDirectoryInfo whose listing holds a
\* recording the item's date-time is the latest recording time of the listed
\* recordings, its totalepisodes is watchedepisodes plus unwatchedepisodes and
\* the number of listed recordings, and its overlay is 'unwatched' exactly
\* when unwatchedepisodes > 0; after a failed one the item is as it was
C20_DirectoryInfo ==
  InfoDone =>
    /\ (probe.ret /\ InfoListed # {}) =>
         /\ \E k \in InfoListed : probe.item.dateTime = recordings[k].time
         /\ \A k \in InfoListed : probe.item.dateTime >= recordings[k].time
         /\ GetProperty(probe.item, "totalepisodes", 0)
              = GetProperty(probe.item, "watchedepisodes", 0)
                + GetProperty(probe.item, "unwatchedepisodes", 0)
         /\ GetProperty(probe.item, "totalepisodes", 0) = Cardinality(InfoListed)
         /\ (probe.item.overlay = "unwatched")
              <=> (GetProperty(probe.item, "unwatchedepisodes", 0) > 0)
    /\ ~probe.ret => probe.item = probe.given

====
